---- MODULE Spec2Model ----
(***************************************************************************)
(* picto-cache backend (src/backend/serve.go, src/backend/store.go).       *)
(*                                                                         *)
(* Strings are sequences of tokens: a token is a run of characters that    *)
(* the code never looks inside ("image", "png", "12"), or one delimiter     *)
(* the code or the SQL store does look at (".", "/", "'", "=", " OR ").     *)
(* fmt.Sprintf and strings.Join are concatenation of such sequences.       *)
(***************************************************************************)
EXTENDS Integers, Sequences, FiniteSets, TLC

(***************************************************************************)
(* Bounds of the model.                                                    *)
(***************************************************************************)
\* number of image ids the SERIAL counter hands out in Spec
MaxImages == 2
\* number of injected store / file-system failures in one behaviour of Spec
MaxFaults == 2
\* number of requests started in one behaviour of Spec
MaxReqs == 2
\* largest image table of SpecQuery
MaxRows == 104
\* largest page index a query of SpecQuery asks for
MaxPage == 3
MaxAccountReqs == 3
MaxTime == 32

\* accounts (owner ids) and concurrent request handlers
Users == {1, 2}
Procs == {"p1", "p2"}

(***************************************************************************)
(* Program constants.                                                      *)
(***************************************************************************)
PAGE_SIZE == 50
IMAGE_DIR == "image"
REF_URL  == "localhost:8000"

(***************************************************************************)
(* String helpers (Go standard library, by what they do).                  *)
(***************************************************************************)
\* the integers whose decimal writing occurs in a run of the model
NumRange == (0 - PAGE_SIZE * (MaxPage + 1)) .. (PAGE_SIZE * (MaxPage + 1))
NumTokens == {ToString(n) : n \in NumRange}
NumValue == [tok \in NumTokens |-> CHOOSE n \in NumRange : ToString(n) = tok]

\* strconv.Itoa / %v of an integer: one token
NumString == [n \in NumRange |-> ToString(n)]
Itoa(n) == <<NumString[n]>>

\* strconv.Atoi: a string parses iff it is the decimal writing of an integer
AtoiOk(s) == Len(s) = 1 /\ s[1] \in NumTokens
Atoi(s) == NumValue[s[1]]

\* index of the first / last occurrence of token t in s, 0 when absent
IndexOf(s, t) ==
    IF \E i \in 1..Len(s) : s[i] = t
    THEN CHOOSE i \in 1..Len(s) : s[i] = t /\ \A j \in 1..(i-1) : s[j] # t
    ELSE 0

LastIndexOf(s, t) ==
    IF \E i \in 1..Len(s) : s[i] = t
    THEN CHOOSE i \in 1..Len(s) : s[i] = t /\ \A j \in (i+1)..Len(s) : s[j] # t
    ELSE 0

\* strings.Split(s, sep)[0]
SplitHead(s, sep) ==
    IF IndexOf(s, sep) = 0 THEN s ELSE SubSeq(s, 1, IndexOf(s, sep) - 1)

\* strings.Split(s, sep)[1], for a string that holds sep
SplitSecond(s, sep) ==
    LET rest == SubSeq(s, IndexOf(s, sep) + 1, Len(s))
    IN SplitHead(rest, sep)

\* filepath.Ext: the suffix beginning at the final dot, empty without a dot
FilepathExt(s) ==
    IF LastIndexOf(s, ".") = 0 THEN <<>> ELSE SubSeq(s, LastIndexOf(s, "."), Len(s))

\* strings.TrimSuffix
TrimSuffix(s, suf) ==
    IF Len(suf) <= Len(s) /\ SubSeq(s, Len(s) - Len(suf) + 1, Len(s)) = suf
    THEN SubSeq(s, 1, Len(s) - Len(suf))
    ELSE s

\* strings.Join(parts, sep)
RECURSIVE Join(_, _)
Join(parts, sep) ==
    IF Len(parts) = 0 THEN <<>>
    ELSE IF Len(parts) = 1 THEN parts[1]
    ELSE parts[1] \o sep \o Join(Tail(parts), sep)

(***************************************************************************)
(* The image_meta table and the WHERE clauses the store is handed.         *)
(* A row is an Image (serve.go:37-46).  rows maps the ids of the rows that *)
(* exist to the rows.                                                      *)
(***************************************************************************)
VARIABLES rows, nextId, blobs, orig, touched, pc, req, resp, faults, nreqs,
          users, passes, nextUid, regs, now

vars == <<rows, nextId, blobs, orig, touched, pc, req, resp, faults, nreqs,
          users, passes, nextUid, regs, now>>

\* the image table and the blob store, with their history
images == <<rows, nextId, blobs, orig, touched>>

\* the tables user_meta and user_pass, the registrations answered 200
\* (history) and the clock
accounts == <<users, passes, nextUid, regs, now>>

Image(id, uid, title, ref, size, encoding, shareable) ==
    [id |-> id, uid |-> uid, title |-> title, ref |-> ref, size |-> size,
     encoding |-> encoding, shareable |-> shareable]

\* the zero value Image{}
NoImage == Image(0, 0, <<>>, <<>>, 0, <<>>, FALSE)

IntColumns  == {"id", "uid", "size"}
BoolColumns == {"shareable"}
TextColumns == {"title", "ref", "encoding"}
Columns == IntColumns \cup BoolColumns \cup TextColumns
BoolWords == {"true", "false"}

\* the SQL lexer: a quote opens a string literal that runs to the next quote;
\* outside a literal every token is a lexeme of its own
RECURSIVE LexFrom(_, _, _, _, _)
LexFrom(s, i, inq, cur, acc) ==
    IF i > Len(s)
    THEN [ok |-> ~inq, lx |-> acc]
    ELSE IF s[i] = "'"
    THEN IF inq
         THEN LexFrom(s, i + 1, FALSE, <<>>, Append(acc, [k |-> "lit", v |-> cur]))
         ELSE LexFrom(s, i + 1, TRUE, <<>>, acc)
    ELSE IF inq
    THEN LexFrom(s, i + 1, TRUE, Append(cur, s[i]), acc)
    ELSE LexFrom(s, i + 1, FALSE, <<>>, Append(acc, [k |-> "w", v |-> <<s[i]>>]))

Lex(s) == LexFrom(s, 1, FALSE, <<>>, <<>>)

IsWord(lx, i, w) == i <= Len(lx) /\ lx[i].k = "w" /\ lx[i].v = <<w>>

IsColumn(l) == l.k = "w" /\ l.v[1] \in Columns

\* an operand is a column, a string literal, a number or a boolean word
IsOperand(l) ==
    \/ l.k = "lit"
    \/ l.k = "w" /\ (l.v[1] \in Columns \/ l.v[1] \in BoolWords \/ AtoiOk(l.v))

\* the value of an operand in a row, written as a string
Rendering(l, row) ==
    IF ~IsColumn(l) THEN l.v
    ELSE IF l.v[1] \in IntColumns THEN Itoa(row[l.v[1]])
    ELSE IF l.v[1] \in BoolColumns THEN (IF row[l.v[1]] THEN <<"true">> ELSE <<"false">>)
    ELSE row[l.v[1]]

\* a column of an integer or boolean type is compared only with what its type
\* reads: anything else is an error of the statement
Comparable(a, b) ==
    /\ (IsColumn(a) /\ a.v[1] \in IntColumns) => (IsColumn(b) \/ AtoiOk(b.v))
    /\ (IsColumn(a) /\ a.v[1] \in BoolColumns) =>
           (IsColumn(b) \/ (Len(b.v) = 1 /\ b.v[1] \in BoolWords))

\* condition := conj { OR conj };  conj := atom { AND atom };
\* atom := ( condition ) | operand = operand.   AND binds tighter than OR.
\* Marks reads the comparisons of a row: it turns the lexemes into marks,
\* "T" / "F" for a comparison that holds / fails in the row, "(" ")" "&" "|"
\* for the rest.  Returns [ok, m]: read without error, the marks.
RECURSIVE Marks(_, _, _, _)
Marks(lx, i, row, acc) ==
    IF i > Len(lx) THEN [ok |-> TRUE, m |-> acc]
    ELSE IF IsWord(lx, i, "(") \/ IsWord(lx, i, ")")
    THEN Marks(lx, i + 1, row, Append(acc, lx[i].v[1]))
    ELSE IF IsWord(lx, i, " AND ") \/ IsWord(lx, i, " OR ")
    THEN Marks(lx, i + 1, row, Append(acc, IF lx[i].v[1] = " AND " THEN "&" ELSE "|"))
    ELSE IF /\ i + 2 <= Len(lx)
            /\ IsOperand(lx[i]) /\ IsWord(lx, i + 1, "=") /\ IsOperand(lx[i + 2])
            /\ Comparable(lx[i], lx[i + 2]) /\ Comparable(lx[i + 2], lx[i])
    THEN Marks(lx, i + 3, row,
               Append(acc, IF Rendering(lx[i], row) = Rendering(lx[i + 2], row)
                           THEN "T" ELSE "F"))
    ELSE [ok |-> FALSE, m |-> <<>>]

\* a condition without parentheses: truth values separated by "&" and "|"
FlatOk(m) ==
    /\ Len(m) % 2 = 1
    /\ \A k \in 1..Len(m) : IF k % 2 = 1 THEN m[k] \in {"T", "F"} ELSE m[k] \in {"&", "|"}

\* its value: some run of values joined by "&" holds throughout
FlatValue(m) ==
    \E i \in 1..Len(m) :
        /\ i % 2 = 1 /\ (i = 1 \/ m[i - 1] = "|")
        /\ \A k \in i..Len(m) :
              (k % 2 = 1 /\ \A e \in i..k : e % 2 = 0 => m[e] = "&") => m[k] = "T"

\* a condition: the innermost parenthesis is replaced by its value until none
\* is left.  Returns [ok, v]: parsed without error, the truth value.
RECURSIVE Reduce(_)
Reduce(m) ==
    IF IndexOf(m, "(") = 0 /\ IndexOf(m, ")") = 0
    THEN [ok |-> FlatOk(m), v |-> FlatOk(m) /\ FlatValue(m)]
    ELSE LET c == IndexOf(m, ")")
             o == LastIndexOf(SubSeq(m, 1, c - 1), "(")
             inner == SubSeq(m, o + 1, c - 1)
         IN IF c = 0 \/ o = 0 \/ ~FlatOk(inner)
            THEN [ok |-> FALSE, v |-> FALSE]
            ELSE Reduce(SubSeq(m, 1, o - 1)
                        \o <<IF FlatValue(inner) THEN "T" ELSE "F">>
                        \o SubSeq(m, c + 1, Len(m)))

\* the where holds in the row
EvalWhere(lx, row) == Reduce(Marks(lx, 1, row, <<>>).m).v

\* the statement "... WHERE <where>" is accepted by the store
WhereValid(where) ==
    /\ Lex(where).ok
    /\ Marks(Lex(where).lx, 1, NoImage, <<>>).ok
    /\ Reduce(Marks(Lex(where).lx, 1, NoImage, <<>>).m).ok

\* the ids of the rows of table t that satisfy an accepted where
Matching(t, where) ==
    LET lx == Lex(where).lx
    IN {id \in DOMAIN t : EvalWhere(lx, t[id])}

(***************************************************************************)
(* store.go: ImageMetaQuery.                                               *)
(***************************************************************************)
\* url.Values: params maps the names present in the query string to values
Has(params, k) == k \in DOMAIN params
Get(params, k) == IF k \in DOMAIN params THEN params[k] ELSE <<>>

\* fmt.Sprintf("<col>='%v'", value)
QuotedCond(col, value) == <<col, "=", "'">> \o value \o <<"'">>

\* fmt.Sprintf("(uid=%v OR shareable=true)", uid)
PermCond(uid) == <<"(", "uid", "=">> \o Itoa(uid) \o <<" OR ", "shareable", "=", "true", ")">>

\* the conditions slice, in the order the code appends to it
Conditions(uid, params) ==
    (IF Has(params, "id") THEN <<QuotedCond("id", Get(params, "id"))>> ELSE <<>>)
    \o (IF Has(params, "uid") THEN <<QuotedCond("uid", Get(params, "uid"))>> ELSE <<>>)
    \o (IF Has(params, "title") THEN <<QuotedCond("title", Get(params, "title"))>> ELSE <<>>)
    \o (IF Has(params, "shareable")
        THEN <<QuotedCond("shareable", Get(params, "shareable"))>> ELSE <<>>)
    \o (IF Has(params, "encoding")
        THEN <<QuotedCond("encoding", Get(params, "encoding"))>> ELSE <<>>)
    \o <<PermCond(uid)>>

\* the test as it would be without the case of the page alone
DefaultRequestNoPage(params) == Cardinality(DOMAIN params) = 0

\* "Default request for default parameters"
DefaultRequest(params) ==
    \/ Cardinality(DOMAIN params) = 0
    \/ Cardinality(DOMAIN params) = 1 /\ Has(params, "page")

\* the query string handed to CountRowsWhere
QueryString(uid, params) ==
    IF DefaultRequest(params)
    THEN <<"uid", "=">> \o Itoa(uid)
    ELSE Join(Conditions(uid, params), <<" AND ">>)

\* the page as it would be if a page that does not parse meant the second page
PageOfOne(params) ==
    IF AtoiOk(Get(params, "page")) THEN Atoi(Get(params, "page")) ELSE 1

\* page, err := strconv.Atoi(params.Get("page")); if err != nil { page = 0 }
PageOf(params) ==
    IF AtoiOk(Get(params, "page")) THEN Atoi(Get(params, "page")) ELSE 0

\* the statement as it would be with the page index as the offset
PagedQueryOffsetPage(query, page) ==
    query \o <<" LIMIT ">> \o Itoa(PAGE_SIZE) \o <<" OFFSET ">> \o Itoa(page)

\* fmt.Sprintf("%s LIMIT %v OFFSET %v", query, PAGE_SIZE, page*PAGE_SIZE)
PagedQuery(query, page) ==
    query \o <<" LIMIT ">> \o Itoa(PAGE_SIZE) \o <<" OFFSET ">> \o Itoa(page * PAGE_SIZE)

\* conn.CountRowsWhere(IMAGE_TABLE, query)
CountRowsWhere(t, query) ==
    IF WhereValid(query)
    THEN [err |-> FALSE, n |-> Cardinality(Matching(t, query))]
    ELSE [err |-> TRUE, n |-> 0]

\* the members of ids from i to hi, in increasing order
RECURSIVE Ordered(_, _, _)
Ordered(ids, i, hi) ==
    IF i > hi THEN <<>>
    ELSE (IF i \in ids THEN <<i>> ELSE <<>>) \o Ordered(ids, i + 1, hi)

\* the rows with the given ids in the order of their ids (the order in which
\* the table returns them), from position offset, at most limit of them
Slice(t, ids, limit, offset) ==
    LET all == Ordered(ids, 1, Cardinality(DOMAIN t) + MaxImages)
        last == IF offset + limit < Len(all) THEN offset + limit ELSE Len(all)
        page == SubSeq(all, offset + 1, last)
    IN [k \in 1..Len(page) |-> t[page[k]]]

\* conn.SelectFromWhere(Image{}, IMAGE_TABLE, "<where> LIMIT <n> OFFSET <m>"):
\* the statement fails on a where it cannot read and on a negative offset
SelectFromWhere(t, paged) ==
    LET i == LastIndexOf(paged, " LIMIT ")
        where == SubSeq(paged, 1, i - 1)
        limit == Atoi(<<paged[i + 1]>>)
        offset == Atoi(<<paged[i + 3]>>)
    IN IF WhereValid(where) /\ offset >= 0
       THEN [err |-> FALSE, rows |-> Slice(t, Matching(t, where), limit, offset)]
       ELSE [err |-> TRUE, rows |-> <<>>]

QueryResp(page, pageSize, totalResults, imageMeta) ==
    [page |-> page, pageSize |-> pageSize, totalResults |-> totalResults,
     imageMeta |-> imageMeta]

\* ImageMetaQuery(uid, params) on table t; fault names the store call that
\* fails for a reason of its own ("connect", "count", "select" or "none")
ImageMetaQuery(t, uid, params, fault) ==
    LET page == PageOf(params)
        query == QueryString(uid, params)
        totalResp == CountRowsWhere(t, query)
        dbReturn == SelectFromWhere(t, PagedQuery(query, page))
    IN IF fault = "connect" THEN [err |-> TRUE, resp |-> QueryResp(0, 0, 0, <<>>)]
       ELSE IF fault = "count" \/ totalResp.err
       THEN [err |-> TRUE, resp |-> QueryResp(0, 0, 0, <<>>)]
       ELSE IF fault = "select" \/ dbReturn.err
       THEN [err |-> TRUE, resp |-> QueryResp(0, 0, 0, <<>>)]
       ELSE [err |-> FALSE,
             resp |-> QueryResp(page, PAGE_SIZE, totalResp.n, dbReturn.rows)]

(***************************************************************************)
(* serve.go: requests, tokens, the blob store.                             *)
(*                                                                         *)
(* pc[p] is the place of handler p in its code, req[p] its locals, resp[p] *)
(* the response it has written.  blobs maps the paths of the files that    *)
(* exist to their bytes.  orig[id] remembers the bytes of the upload that  *)
(* was given id, and touched holds the ids of the rows that an update or a *)
(* delete request has written (both history, read by no handler).          *)
(***************************************************************************)
\* a token the server signed for uid and that has not expired, or anything else
ValidToken(uid) == [valid |-> TRUE, uid |-> uid]
BadToken == [valid |-> FALSE, uid |-> 0]
Tokens == {ValidToken(u) : u \in Users} \cup {BadToken}

\* authRequest: the claims of the request's token, or an error
AuthRequest(tok) == [err |-> ~tok.valid, Uid |-> IF tok.valid THEN tok.uid ELSE 0]

\* http.DetectContentType, on the signature the content begins with
DetectContentType(buffer) ==
    IF Len(buffer) > 0 /\ buffer[1] = "PNGSIG" THEN <<"image", "/", "png">>
    ELSE IF Len(buffer) > 0 /\ buffer[1] = "JPGSIG" THEN <<"image", "/", "jpeg">>
    ELSE IF Len(buffer) > 0 /\ buffer[1] = "GIFSIG" THEN <<"image", "/", "gif">>
    ELSE <<"application", "/", "octet-stream">>

\* the reference as it would be with the id and the owner id exchanged
RefOfSwapped(uid, id, fileExt) ==
    <<REF_URL, "/", IMAGE_DIR, "/">> \o Itoa(id) \o <<"/">> \o Itoa(uid) \o <<".">> \o fileExt

\* fmt.Sprintf("%s/%s/%v/%v.%v", refUrl, IMAGE_DIR, Uid, Id, fileExt)
RefOf(uid, id, fileExt) ==
    <<REF_URL, "/", IMAGE_DIR, "/">> \o Itoa(uid) \o <<"/">> \o Itoa(id) \o <<".">> \o fileExt

\* the path as it would be without the id in it
FileRefStrNoId(uid, id, fileExt) ==
    <<".", "/", IMAGE_DIR, "/">> \o Itoa(uid) \o <<"/", "image", ".">> \o fileExt

\* fmt.Sprintf("./%s/%v/%v.%v", IMAGE_DIR, Uid, Id, fileExt)
FileRefStr(uid, id, fileExt) ==
    <<".", "/", IMAGE_DIR, "/">> \o Itoa(uid) \o <<"/">> \o Itoa(id) \o <<".">> \o fileExt

\* fmt.Sprintf("./%s/%s/%s", IMAGE_DIR, vars["uid"], vars["fileId"])
VarsPath(vuid, fileId) == <<".", "/", IMAGE_DIR, "/">> \o vuid \o <<"/">> \o fileId

\* fmt.Sprintf("%s.%s", strings.Split(title, ".")[0], fileExt)
TitleWithExt(title, fileExt) == SplitHead(title, ".") \o <<".">> \o fileExt

\* the update as it would be if it wrote the title column only
UpdateObjectTitleOnly(t, obj) ==
    IF obj.id \in DOMAIN t THEN [t EXCEPT ![obj.id].title = obj.title] ELSE t

\* conn.UpdateObject: the row with the object's id becomes the object
UpdateObject(t, obj) ==
    IF obj.id \in DOMAIN t THEN [t EXCEPT ![obj.id] = obj] ELSE t

\* conn.DeleteObject: the row with the object's id is gone
DeleteObject(t, obj) == [id \in DOMAIN t \ {obj.id} |-> t[id]]

\* conn.InsertObject: a new row under the next id of the SERIAL column
InsertObject(t, obj, id) ==
    [i \in DOMAIN t \cup {id} |-> IF i = id THEN [obj EXCEPT !.id = id] ELSE t[i]]

\* GetImageMeta(id): "404 - Not found" unless exactly one row has the id
GetImageMeta(t, id, fault) ==
    IF fault THEN [err |-> "db", image |-> NoImage]
    ELSE IF id \notin DOMAIN t THEN [err |-> "404", image |-> NoImage]
    ELSE [err |-> "", image |-> t[id]]

\* the row that a write of obj replaces (history)
Replaced(t, obj) == IF obj.id \in DOMAIN t THEN t[obj.id] ELSE NoImage

\* validateVars(vars)
ValidateVars(t, vuid, fileId, fault) ==
    IF Len(vuid) = 0 \/ Len(fileId) = 0 THEN [err |-> "incomplete", image |-> NoImage]
    ELSE IF ~AtoiOk(TrimSuffix(fileId, FilepathExt(fileId)))
    THEN [err |-> "parse", image |-> NoImage]
    ELSE GetImageMeta(t, Atoi(TrimSuffix(fileId, FilepathExt(fileId))), fault)

\* the status the three image handlers answer a validateVars error with
VarsErrStatus(err) == IF err = "404" THEN 404 ELSE 400

NoReq == [h |-> "none", tok |-> BadToken, uid |-> 0, vuid |-> <<>>, fileId |-> <<>>,
          meta |-> NoImage, content |-> <<>>, ext |-> <<>>, params |-> <<>>,
          read |-> NoImage, over |-> NoImage]
\* at is the place in the handler that wrote the response
NoResp == [status |-> 0, body |-> <<>>, at |-> ""]

Respond(p, r, status, body) ==
    /\ pc' = [pc EXCEPT ![p] = "done"]
    /\ req' = [req EXCEPT ![p] = r]
    /\ resp' = [resp EXCEPT ![p] = [status |-> status, body |-> body, at |-> pc[p]]]

Goto(p, r, label) ==
    /\ pc' = [pc EXCEPT ![p] = label]
    /\ req' = [req EXCEPT ![p] = r]
    /\ UNCHANGED resp

\* the handler has returned and the connection serves its next request
Return(p) ==
    /\ pc[p] = "done"
    /\ pc' = [pc EXCEPT ![p] = "idle"]
    /\ req' = [req EXCEPT ![p] = NoReq]
    /\ resp' = [resp EXCEPT ![p] = NoResp]
    /\ UNCHANGED <<rows, nextId, blobs, orig, touched>>

(***************************************************************************)
(* imageMetaRequest                                                        *)
(***************************************************************************)
ImageMetaRequest(p, tok, params, fault) ==
    /\ pc[p] = "idle"
    /\ LET claims == AuthRequest(tok)
           r == [NoReq EXCEPT !.h = "query", !.tok = tok, !.uid = claims.Uid,
                              !.params = params]
           q == ImageMetaQuery(rows, claims.Uid, params, fault)
       IN IF claims.err THEN Respond(p, [NoReq EXCEPT !.h = r.h, !.tok = tok], 401, <<>>)
          ELSE IF q.err THEN Respond(p, r, 500, <<>>)
          ELSE Respond(p, r, 200, q.resp)
    /\ UNCHANGED <<rows, nextId, blobs, orig, touched>>

(***************************************************************************)
(* getImage                                                                *)
(***************************************************************************)
\* the handler as it would be if it read the file of a path without a row
GetImageByPath(p, tok, vuid, fileId, fault) ==
    /\ pc[p] = "idle"
    /\ LET claims == AuthRequest(tok)
           v == ValidateVars(rows, vuid, fileId, fault = "select")
           r == [NoReq EXCEPT !.h = "get", !.tok = tok, !.uid = claims.Uid,
                              !.vuid = vuid, !.fileId = fileId, !.meta = v.image]
       IN IF claims.err THEN Respond(p, [NoReq EXCEPT !.h = r.h, !.tok = tok], 401, <<>>)
          ELSE IF v.err = "404" THEN Goto(p, r, "get_read")
          ELSE IF v.err # "" THEN Respond(p, r, VarsErrStatus(v.err), <<>>)
          ELSE IF claims.Uid # v.image.uid THEN Respond(p, r, 401, <<>>)
          ELSE Goto(p, r, "get_read")
    /\ UNCHANGED <<rows, nextId, blobs, orig, touched>>

GetImage(p, tok, vuid, fileId, fault) ==
    /\ pc[p] = "idle"
    /\ LET claims == AuthRequest(tok)
           v == ValidateVars(rows, vuid, fileId, fault = "select")
           r == [NoReq EXCEPT !.h = "get", !.tok = tok, !.uid = claims.Uid,
                              !.vuid = vuid, !.fileId = fileId, !.meta = v.image]
       IN IF claims.err THEN Respond(p, [NoReq EXCEPT !.h = r.h, !.tok = tok], 401, <<>>)
          ELSE IF v.err # "" THEN Respond(p, r, VarsErrStatus(v.err), <<>>)
          ELSE IF claims.Uid # v.image.uid THEN Respond(p, r, 401, <<>>)
          ELSE Goto(p, r, "get_read")
    /\ UNCHANGED <<rows, nextId, blobs, orig, touched>>

\* the step as it would be if a file that is not there were answered 404
GetImageReadNotFound(p, fault) ==
    /\ pc[p] = "get_read"
    /\ LET path == VarsPath(req[p].vuid, req[p].fileId)
       IN IF fault = "read" THEN Respond(p, req[p], 500, <<>>)
          ELSE IF path \notin DOMAIN blobs THEN Respond(p, req[p], 404, <<>>)
          ELSE Respond(p, req[p], 200, blobs[path])
    /\ UNCHANGED <<rows, nextId, blobs, orig, touched>>

\* ioutil.ReadFile and the response: after a failed read the handler writes
\* the 500 header and goes on to write the (empty) file bytes
GetImageRead(p, fault) ==
    /\ pc[p] = "get_read"
    /\ LET path == VarsPath(req[p].vuid, req[p].fileId)
       IN IF fault = "read" \/ path \notin DOMAIN blobs
          THEN Respond(p, req[p], 500, <<>>)
          ELSE Respond(p, req[p], 200, blobs[path])
    /\ UNCHANGED <<rows, nextId, blobs, orig, touched>>

(***************************************************************************)
(* addImage.  form is the multipart form: content (the bytes of the file   *)
(* part), filename, title and shareable ("" when the field is absent).     *)
(***************************************************************************)
AcceptedTypes == {<<"image", "/", "jpeg">>, <<"image", "/", "png">>}

\* the compensating delete as it would be if it were repeated until it succeeds
CleanDBRetried(t, imageData, deleteFails) == DeleteObject(t, imageData)

\* the compensating DeleteImageData(imageData), whose error the code drops
CleanDB(t, imageData, deleteFails) ==
    IF deleteFails THEN t ELSE DeleteObject(t, imageData)

\* the flag as it would be if any value of the field set it
FormShareableAny(form) == form.shareable # <<>>

\* shareable := false; if req.FormValue("shareable") == "true" { shareable = true }
FormShareable(form) == form.shareable = <<"true">>

\* from authRequest to AddImageData
AddImage(p, tok, form, fault) ==
    /\ pc[p] = "idle"
    /\ LET claims == AuthRequest(tok)
           fileType == DetectContentType(form.content)
           fileExt == SplitSecond(fileType, "/")
           shareable == FormShareable(form)
           title == IF Len(form.title) = 0 THEN form.filename ELSE form.title
           imageData == Image(nextId, claims.Uid, TitleWithExt(title, fileExt), <<>>,
                              Len(form.content), fileType, shareable)
           r == [NoReq EXCEPT !.h = "add", !.tok = tok, !.uid = claims.Uid,
                              !.content = form.content, !.params = form]
       IN IF claims.err
          THEN Respond(p, [NoReq EXCEPT !.h = r.h, !.tok = tok], 401, <<>>) /\ UNCHANGED <<rows, nextId, orig>>
          ELSE IF Len(form.content) = 0
          \* img.Read fails with io.EOF: the header written is 500
          THEN Respond(p, r, 500, <<>>) /\ UNCHANGED <<rows, nextId, orig>>
          ELSE IF fileType \notin AcceptedTypes
          THEN Respond(p, r, 400, <<>>) /\ UNCHANGED <<rows, nextId, orig>>
          ELSE IF fault = "mkdir" \/ fault = "insert"
          THEN Respond(p, r, 500, <<>>) /\ UNCHANGED <<rows, nextId, orig>>
          ELSE /\ rows' = InsertObject(rows, imageData, nextId)
               /\ nextId' = nextId + 1
               /\ orig' = [i \in DOMAIN orig \cup {nextId} |->
                              IF i = nextId THEN form.content ELSE orig[i]]
               /\ Goto(p, [r EXCEPT !.meta = imageData, !.ext = fileExt], "add_update")
    /\ UNCHANGED <<blobs, touched>>

\* imageData.Ref = ...; UpdateImageData(imageData)
AddImageUpdateRef(p, fault) ==
    /\ pc[p] = "add_update"
    /\ LET imageData == [req[p].meta EXCEPT
                            !.ref = RefOf(req[p].meta.uid, req[p].meta.id, req[p].ext)]
           r == [req[p] EXCEPT !.meta = imageData, !.over = Replaced(rows, imageData)]
       IN IF fault \in {"update", "update+delete"}
          THEN /\ rows' = CleanDB(rows, imageData, fault = "update+delete")
               /\ Respond(p, r, 500, <<>>)
          ELSE /\ rows' = UpdateObject(rows, imageData)
               /\ Goto(p, r, "add_create")
    /\ UNCHANGED <<nextId, blobs, orig, touched>>

\* os.Create(fileRefStr): the file exists and is empty
AddImageCreate(p, fault) ==
    /\ pc[p] = "add_create"
    /\ LET imageData == req[p].meta
           fileRefStr == FileRefStr(imageData.uid, imageData.id, req[p].ext)
       IN IF fault \in {"create", "create+delete"}
          THEN /\ rows' = CleanDB(rows, imageData, fault = "create+delete")
               /\ Respond(p, req[p], 500, <<>>)
               /\ UNCHANGED blobs
          ELSE /\ blobs' = [f \in DOMAIN blobs \cup {fileRefStr} |->
                               IF f = fileRefStr THEN <<>> ELSE blobs[f]]
               /\ Goto(p, req[p], "add_copy")
               /\ UNCHANGED rows
    /\ UNCHANGED <<nextId, orig, touched>>

\* io.Copy(fileRef, img) writes through the open file: a file unlinked in
\* the meantime gets no bytes at its path.  A failed copy has written
\* written < Len(content) bytes.
AddImageCopy(p, fault, written) ==
    /\ pc[p] = "add_copy"
    /\ LET imageData == req[p].meta
           fileRefStr == FileRefStr(imageData.uid, imageData.id, req[p].ext)
           failed == fault \in {"copy", "copy+delete"}
           bytes == IF failed THEN SubSeq(req[p].content, 1, written) ELSE req[p].content
       IN /\ failed => written < Len(req[p].content)
          /\ ~failed => written = Len(req[p].content)
          /\ blobs' = IF fileRefStr \in DOMAIN blobs
                      THEN [blobs EXCEPT ![fileRefStr] = bytes] ELSE blobs
          /\ IF failed
             THEN /\ rows' = CleanDB(rows, imageData, fault = "copy+delete")
                  /\ Respond(p, req[p], 500, <<>>)
             ELSE /\ UNCHANGED rows
                  /\ Respond(p, req[p], 200, imageData)
    /\ UNCHANGED <<nextId, orig, touched>>

(***************************************************************************)
(* updateImage.  body.m is the decoded JSON object (a map from names to    *)
(* strings); body.ok is false when the decoder rejects the request body.   *)
(***************************************************************************)
\* the title and shareable assignments on imageMeta
\* the body applied as it would be if any title and any shareable value were taken
ApplyParamsAnyShareable(imageMeta, newParams) ==
    LET t1 == IF "title" \in DOMAIN newParams
              THEN [imageMeta EXCEPT !.title =
                       TitleWithExt(newParams["title"], SplitSecond(imageMeta.encoding, "/"))]
              ELSE imageMeta
    IN IF "shareable" \in DOMAIN newParams
       THEN [t1 EXCEPT !.shareable = (newParams["shareable"] # <<"false">>)]
       ELSE t1

ApplyParams(imageMeta, newParams) ==
    LET t1 == IF "title" \in DOMAIN newParams /\ Len(newParams["title"]) > 0
              THEN [imageMeta EXCEPT !.title =
                       TitleWithExt(newParams["title"], SplitSecond(imageMeta.encoding, "/"))]
              ELSE imageMeta
    IN IF "shareable" \in DOMAIN newParams /\ newParams["shareable"] = <<"true">>
       THEN [t1 EXCEPT !.shareable = TRUE]
       ELSE IF "shareable" \in DOMAIN newParams /\ newParams["shareable"] = <<"false">>
       THEN [t1 EXCEPT !.shareable = FALSE]
       ELSE t1

\* the check as it would be if it never found a mismatch
UidMismatchNever(vuid, imageMeta) == FALSE

\* "Ensure there is no uid miss match": uidVal, err := strconv.Atoi(vars["uid"])
UidMismatch(vuid, imageMeta) ==
    (IF AtoiOk(vuid) THEN Atoi(vuid) ELSE 0) # imageMeta.uid

\* the check as it would be with the read permission in its place
MayModifyShared(claimsUid, imageMeta) ==
    claimsUid = imageMeta.uid \/ imageMeta.shareable

\* "Ensure user has access permissions" of updateImage and delImage
MayModify(claimsUid, imageMeta) == claimsUid = imageMeta.uid

\* from authRequest to the new imageMeta
UpdateImage(p, tok, vuid, fileId, body, fault) ==
    /\ pc[p] = "idle"
    /\ LET claims == AuthRequest(tok)
           v == ValidateVars(rows, vuid, fileId, fault = "select")
           r == [NoReq EXCEPT !.h = "update", !.tok = tok, !.uid = claims.Uid,
                              !.vuid = vuid, !.fileId = fileId, !.meta = v.image,
                              !.params = body, !.read = v.image]
       IN IF claims.err THEN Respond(p, [NoReq EXCEPT !.h = r.h, !.tok = tok], 401, <<>>)
          ELSE IF v.err # "" THEN Respond(p, r, VarsErrStatus(v.err), <<>>)
          ELSE IF UidMismatch(vuid, v.image) THEN Respond(p, r, 400, <<>>)
          ELSE IF ~MayModify(claims.Uid, v.image) THEN Respond(p, r, 401, <<>>)
          ELSE IF ~body.ok THEN Respond(p, r, 400, <<>>)
          ELSE Goto(p, [r EXCEPT !.meta = ApplyParams(v.image, body.m)], "upd_write")
    /\ UNCHANGED <<rows, nextId, blobs, orig, touched>>

\* the step as it would be if a row that has changed since it was read
\* made the update fail with 409
UpdateImageWriteChecked(p, fault) ==
    /\ pc[p] = "upd_write"
    /\ LET r == [req[p] EXCEPT !.over = Replaced(rows, req[p].meta)]
       IN IF fault = "update"
          THEN Respond(p, req[p], 500, <<>>) /\ UNCHANGED <<rows, touched>>
          ELSE IF r.over # req[p].read
          THEN Respond(p, r, 409, <<>>) /\ UNCHANGED <<rows, touched>>
          ELSE /\ rows' = UpdateObject(rows, req[p].meta)
               /\ touched' = touched \cup {req[p].meta.id}
               /\ Respond(p, r, 200, req[p].meta)
    /\ UNCHANGED <<nextId, blobs, orig>>

\* UpdateImageData(imageMeta) and the response
UpdateImageWrite(p, fault) ==
    /\ pc[p] = "upd_write"
    /\ LET r == [req[p] EXCEPT !.over = Replaced(rows, req[p].meta)]
       IN IF fault = "update"
          THEN Respond(p, req[p], 500, <<>>) /\ UNCHANGED <<rows, touched>>
          ELSE /\ rows' = UpdateObject(rows, req[p].meta)
               /\ touched' = touched \cup {req[p].meta.id}
               /\ Respond(p, r, 200, req[p].meta)
    /\ UNCHANGED <<nextId, blobs, orig>>

(***************************************************************************)
(* delImage                                                                *)
(***************************************************************************)
DelImage(p, tok, vuid, fileId, fault) ==
    /\ pc[p] = "idle"
    /\ LET claims == AuthRequest(tok)
           v == ValidateVars(rows, vuid, fileId, fault = "select")
           r == [NoReq EXCEPT !.h = "del", !.tok = tok, !.uid = claims.Uid,
                              !.vuid = vuid, !.fileId = fileId, !.meta = v.image]
       IN IF claims.err THEN Respond(p, [NoReq EXCEPT !.h = r.h, !.tok = tok], 401, <<>>)
          ELSE IF v.err # "" THEN Respond(p, r, VarsErrStatus(v.err), <<>>)
          ELSE IF UidMismatch(vuid, v.image) THEN Respond(p, r, 400, <<>>)
          ELSE IF ~MayModify(claims.Uid, v.image) THEN Respond(p, r, 401, <<>>)
          ELSE Goto(p, r, "del_row")
    /\ UNCHANGED <<rows, nextId, blobs, orig, touched>>

\* the step as it would be if the handler went on after a failed delete
DelImageRowGoesOn(p, fault) ==
    /\ pc[p] = "del_row"
    /\ IF fault = "delete"
       THEN Goto(p, req[p], "del_blob") /\ UNCHANGED <<rows, touched>>
       ELSE /\ rows' = DeleteObject(rows, req[p].meta)
            /\ touched' = touched \cup {req[p].meta.id}
            /\ Goto(p, req[p], "del_blob")
    /\ UNCHANGED <<nextId, blobs, orig>>

\* DeleteImageData(imageMeta)
DelImageRow(p, fault) ==
    /\ pc[p] = "del_row"
    /\ IF fault = "delete"
       THEN Respond(p, req[p], 500, <<>>) /\ UNCHANGED <<rows, touched>>
       ELSE /\ rows' = DeleteObject(rows, req[p].meta)
            /\ touched' = touched \cup {req[p].meta.id}
            /\ Goto(p, req[p], "del_blob")
    /\ UNCHANGED <<nextId, blobs, orig>>

\* the step as it would be if the error of os.Remove were answered with 500
DelImageBlobSurfaced(p, fault) ==
    /\ pc[p] = "del_blob"
    /\ LET fileRef == VarsPath(req[p].vuid, req[p].fileId)
       IN blobs' = IF fault = "remove" THEN blobs
                   ELSE [f \in DOMAIN blobs \ {fileRef} |-> blobs[f]]
    /\ Respond(p, req[p], IF fault = "remove" THEN 500 ELSE 200, <<>>)
    /\ UNCHANGED <<rows, nextId, orig, touched>>

\* os.Remove(fileRef), whose error is only logged; the handler returns
\* without writing a status, which the server sends as 200
DelImageBlob(p, fault) ==
    /\ pc[p] = "del_blob"
    /\ LET fileRef == VarsPath(req[p].vuid, req[p].fileId)
       IN blobs' = IF fault = "remove" THEN blobs
                   ELSE [f \in DOMAIN blobs \ {fileRef} |-> blobs[f]]
    /\ Respond(p, req[p], 200, <<>>)
    /\ UNCHANGED <<rows, nextId, orig, touched>>

(***************************************************************************)
(* The inputs of the requests.                                             *)
(***************************************************************************)
PngBytes == <<"PNGSIG", "d1">>
JpgBytes == <<"JPGSIG", "d2">>
Contents == {PngBytes, JpgBytes, <<"GIFSIG", "d3">>, <<>>}

Forms == [content : Contents, filename : {<<"f", ".", "jpg">>},
          title : {<<>>, <<"a", ".", "bin">>}, shareable : {<<>>, <<"true">>, <<"yes">>}]

PathUids == {Itoa(u) : u \in Users}
FileIds == {Itoa(i) \o <<".", e>> : i \in 1..MaxImages, e \in {"png", "jpeg"}}

Bodies == {[ok |-> FALSE, m |-> <<>>], [ok |-> TRUE, m |-> <<>>],
           [ok |-> TRUE, m |-> [title |-> <<"b", ".", "gif">>]],
           [ok |-> TRUE, m |-> [shareable |-> <<"true">>]],
           [ok |-> TRUE, m |-> [shareable |-> <<"false">>]],
           [ok |-> TRUE, m |-> [title |-> <<>>, shareable |-> <<"yes">>]]}

\* a title value that closes the quoted literal and goes on in SQL
Injection == <<"a", ".", "png", "'", " OR ", "'", "x", "'", "=", "'", "x">>

\* the query strings of Spec
SmallParams == {<<>>, [shareable |-> <<"true">>]}

\* every combination of present and absent filters, with a page or without
FilterOptions ==
    [id : {<<>>, Itoa(2)}, uid : {<<>>, Itoa(2)},
     title : {<<>>, <<"a", ".", "png">>, Injection},
     shareable : {<<>>, <<"false">>}, encoding : {<<>>, <<"image", "/", "png">>},
     page : {<<>>, <<"x">>} \cup {Itoa(n) : n \in 1..MaxPage}]

\* the url.Values of a record of options: the names whose option is not empty
ParamsOf(o) == [k \in {n \in DOMAIN o : o[n] # <<>>} |-> o[k]]

QueryParams == {ParamsOf(o) : o \in FilterOptions}

\* the query strings SpecQuery sends to a table of more than a page
PagingParams ==
    {ParamsOf(o) : o \in {x \in FilterOptions :
        x.id = <<>> /\ x.shareable = <<>> /\ x.encoding = <<>> /\ x.title # Injection}}

(***************************************************************************)
(* Spec: the image handlers running concurrently on one store, with        *)
(* failures of store and file-system calls.                                *)
(***************************************************************************)
\* the bytes, the row and the file of an image that an earlier upload of
\* PngBytes by user 1 left behind
OldImage(shareable) ==
    Image(1, 1, <<"f", ".", "png">>, RefOf(1, 1, <<"png">>), Len(PngBytes),
          <<"image", "/", "png">>, shareable)

\* no account is registered and the clock is at its origin
NoAccounts ==
    /\ users = <<>> /\ passes = <<>> /\ nextUid = 1
    /\ regs = {} /\ now = 0

\* the store is empty, or holds one image of an earlier run
Init ==
    /\ \E old \in {"none", "private", "shareable"} :
          IF old = "none"
          THEN rows = <<>> /\ nextId = 1 /\ blobs = <<>> /\ orig = <<>>
          ELSE /\ rows = [i \in {1} |-> OldImage(old = "shareable")]
               /\ nextId = 2
               /\ blobs = [f \in {FileRefStr(1, 1, <<"png">>)} |-> PngBytes]
               /\ orig = [i \in {1} |-> PngBytes]
    /\ touched = {}
    /\ pc = [p \in Procs |-> "idle"]
    /\ req = [p \in Procs |-> NoReq]
    /\ resp = [p \in Procs |-> NoResp]
    /\ faults = 0
    /\ nreqs = 0
    /\ NoAccounts

\* the failures a step injects are counted against MaxFaults
Cost(fault) ==
    IF fault = "none" THEN 0
    ELSE IF fault \in {"update+delete", "create+delete", "copy+delete",
                        "hash+delete", "pass+delete"} THEN 2
    ELSE 1
Inject(fault) == faults + Cost(fault) <= MaxFaults /\ faults' = faults + Cost(fault)

\* a handler that has answered returns before anything else happens, so that
\* a state with pc[p] = "done" is the instant of p's response
Answering == \E q \in Procs : pc[q] = "done"

\* a request goes to the first handler that is free
Free == {p \in Procs : pc[p] = "idle" /\ (p = "p2" => pc["p1"] # "idle")}

\* handler p takes a new request
StartRequest(p) ==
    \/ \E tok \in Tokens, params \in SmallParams,
          f \in {"none", "connect", "count", "select"} :
          Inject(f) /\ ImageMetaRequest(p, tok, params, f)
    \/ \E tok \in Tokens, vuid \in PathUids, fileId \in FileIds, f \in {"none", "select"} :
          Inject(f) /\ GetImage(p, tok, vuid, fileId, f)
    \/ \E tok \in Tokens, form \in Forms, f \in {"none", "mkdir", "insert"} :
          nextId <= MaxImages /\ Inject(f) /\ AddImage(p, tok, form, f)
    \/ \E tok \in Tokens, vuid \in PathUids, fileId \in FileIds, body \in Bodies,
          f \in {"none", "select"} :
          Inject(f) /\ UpdateImage(p, tok, vuid, fileId, body, f)
    \/ \E tok \in Tokens, vuid \in PathUids, fileId \in FileIds, f \in {"none", "select"} :
          Inject(f) /\ DelImage(p, tok, vuid, fileId, f)

\* handler p goes on with the request it has
Continue(p) ==
    \/ \E f \in {"none", "read"} : Inject(f) /\ GetImageRead(p, f)
    \/ \E f \in {"none", "update", "update+delete"} : Inject(f) /\ AddImageUpdateRef(p, f)
    \/ \E f \in {"none", "create", "create+delete"} : Inject(f) /\ AddImageCreate(p, f)
    \/ \E f \in {"none", "copy", "copy+delete"}, written \in 0..Len(req[p].content) :
          Inject(f) /\ AddImageCopy(p, f, written)
    \/ \E f \in {"none", "update"} : Inject(f) /\ UpdateImageWrite(p, f)
    \/ \E f \in {"none", "delete"} : Inject(f) /\ DelImageRow(p, f)
    \/ \E f \in {"none", "remove"} : Inject(f) /\ DelImageBlob(p, f)

Next ==
    \/ \E p \in Procs : Return(p) /\ UNCHANGED <<nreqs, faults, accounts>>
    \/ /\ ~Answering
       /\ nreqs < MaxReqs
       /\ nreqs' = nreqs + 1
       /\ \E p \in Free : StartRequest(p)
       /\ UNCHANGED accounts
    \/ /\ ~Answering
       /\ UNCHANGED <<nreqs, accounts>>
       /\ \E p \in {q \in Procs : pc[q] \notin {"idle", "done"}} : Continue(p)

Spec == Init /\ [][Next]_vars

(***************************************************************************)
(* SpecQuery: imageMetaRequest on a table no other request writes to.      *)
(* The table holds n images that earlier uploads left behind.              *)
(***************************************************************************)
Layouts == {"own", "shared", "mixed"}
Sizes == {0, 3, PAGE_SIZE + 1, MaxRows}

\* "own": user 1's private images; "shared": user 2's shareable images;
\* "mixed": both users', some shareable, of both encodings and two titles
StoredImage(i, layout) ==
    LET uid == IF layout = "own" THEN 1 ELSE IF layout = "shared" THEN 2 ELSE 1 + (i % 2)
        shareable == IF layout = "own" THEN FALSE
                     ELSE IF layout = "shared" THEN TRUE ELSE i % 3 = 0
        png == layout # "mixed" \/ i % 4 < 2
        bytes == IF png THEN PngBytes ELSE JpgBytes
        fileType == DetectContentType(bytes)
        fileExt == SplitSecond(fileType, "/")
        name == IF layout # "mixed" \/ i % 5 < 3 THEN <<"a">> ELSE <<"b">>
    IN [row |-> Image(i, uid, TitleWithExt(name, fileExt), RefOf(uid, i, fileExt),
                      Len(bytes), fileType, shareable),
        path |-> FileRefStr(uid, i, fileExt),
        bytes |-> bytes]

InitQuery ==
    /\ \E n \in Sizes, layout \in Layouts :
          /\ rows = [i \in 1..n |-> StoredImage(i, layout).row]
          /\ nextId = n + 1
          /\ blobs = [f \in {StoredImage(i, layout).path : i \in 1..n} |->
                         StoredImage(CHOOSE i \in 1..n : StoredImage(i, layout).path = f,
                                     layout).bytes]
          /\ orig = [i \in 1..n |-> StoredImage(i, layout).bytes]
    /\ touched = {}
    /\ pc = [p \in Procs |-> "idle"]
    /\ req = [p \in Procs |-> NoReq]
    /\ resp = [p \in Procs |-> NoResp]
    /\ faults = 0
    /\ nreqs = 0
    /\ NoAccounts

NextQuery ==
    \/ Return("p1") /\ UNCHANGED <<nreqs, faults, accounts>>
    \/ /\ ~Answering
       /\ \E u \in Users,
             params \in IF Cardinality(DOMAIN rows) < PAGE_SIZE
                        THEN QueryParams ELSE PagingParams :
             ImageMetaRequest("p1", ValidToken(u), params, "none")
       /\ UNCHANGED <<nreqs, faults, accounts>>

SpecQuery == InitQuery /\ [][NextQuery]_vars

(***************************************************************************)
(* SpecParams: imageMetaRequest with query strings that carry a name the   *)
(* handler does not know, or a page below zero.  A name that is repeated   *)
(* is one key of url.Values, and Get gives its first value.                *)
(***************************************************************************)
OtherOptions ==
    [page : {<<>>, <<"x">>} \cup {Itoa(n) : n \in {0 - MaxPage, 0 - 1, 0, 1}},
     foo : {<<>>, <<"1">>},
     title : {<<>>, <<"a", ".", "png">>}]

OtherParams == {ParamsOf(o) : o \in OtherOptions}

NextParams ==
    \/ Return("p1") /\ UNCHANGED <<nreqs, faults, accounts>>
    \/ /\ ~Answering
       /\ \E u \in Users, params \in OtherParams :
             ImageMetaRequest("p1", ValidToken(u), params, "none")
       /\ UNCHANGED <<nreqs, faults, accounts>>

\* the tables of SpecQuery that fit a page
InitParams == InitQuery /\ Cardinality(DOMAIN rows) < PAGE_SIZE

SpecParams == InitParams /\ [][NextParams]_vars

(***************************************************************************)
(* serve.go: register, auth, generateJWT and authRequest; store.go: the    *)
(* tables user_meta and user_pass.                                         *)
(*                                                                         *)
(* users and passes are the two tables, by id.  regs remembers the         *)
(* registrations that were answered 200 (history, read by no handler).     *)
(* now is the clock in minutes.                                            *)
(***************************************************************************)
User(uid, firstname, lastname, email) ==
    [id |-> uid, firstname |-> firstname, lastname |-> lastname, email |-> email]

\* the zero value User{}
NoUser == User(0, <<>>, <<>>, <<>>)

UserPassword(uid, hashedPass) == [id |-> uid, hashed_pass |-> hashedPass]

UserTextColumns == {"firstname", "lastname", "email"}

\* the lexemes of a where on user_meta, its columns read in a row
BindUser(lx, row) ==
    [i \in 1..Len(lx) |->
        IF lx[i].k = "w" /\ lx[i].v[1] \in UserTextColumns
        THEN [k |-> "lit", v |-> row[lx[i].v[1]]]
        ELSE IF lx[i].k = "w" /\ lx[i].v[1] = "id"
        THEN [k |-> "w", v |-> Itoa(row.id)]
        ELSE lx[i]]

\* conn.SelectFromWhere(User{}, USER_TABLE, where): an error of the
\* statement, or the ids of the rows it holds in
SelectUsersWhere(t, where) ==
    LET lex == Lex(where)
        marks(row) == Marks(BindUser(lex.lx, row), 1, NoImage, <<>>)
    IN IF ~lex.ok \/ ~marks(NoUser).ok \/ ~Reduce(marks(NoUser).m).ok
       THEN [err |-> TRUE, ids |-> {}]
       ELSE [err |-> FALSE, ids |-> {id \in DOMAIN t : Reduce(marks(t[id]).m).v}]

\* the check as it would be if it counted a single row as no row
UniqueEmailOffByOne(t, email, fault) ==
    LET sel == SelectUsersWhere(t, QuotedCond("email", email))
    IN IF fault \/ sel.err THEN [err |-> TRUE, unique |-> FALSE]
       ELSE [err |-> FALSE, unique |-> ~ (Cardinality(sel.ids) > 1)]

\* UniqueEmail(email): no row is selected by email='<email>'
UniqueEmail(t, email, fault) ==
    LET sel == SelectUsersWhere(t, QuotedCond("email", email))
    IN IF fault \/ sel.err THEN [err |-> TRUE, unique |-> FALSE]
       ELSE [err |-> FALSE, unique |-> ~ (Cardinality(sel.ids) > 0)]

\* bcrypt.GenerateFromPassword: the hash is not the password, and
\* bcrypt.CompareHashAndPassword accepts the password it was made from
GenerateFromPassword(password) == <<"$2a$10$">> \o password

CompareHashAndPassword(hashedPass, password) ==
    hashedPass = GenerateFromPassword(password)

\* what a client puts in the Authorization header of GET /auth
BasicCredentials(email, password) == email \o <<":">> \o password

\* req.BasicAuth(): the credentials are split at their first colon; without
\* one both strings are empty
BasicAuth(cred) ==
    LET i == IndexOf(cred, ":")
    IN IF i = 0 THEN [username |-> <<>>, password |-> <<>>]
       ELSE [username |-> SubSeq(cred, 1, i - 1),
             password |-> SubSeq(cred, i + 1, Len(cred))]

TOKEN_MINUTES == 30
SIGNING_KEY == "hirejacobyjoukema"

\* a signed token string: its claims and the key of its signature
TokenString(uid, email, exp, key) ==
    [Uid |-> uid, Email |-> email, ExpiresAt |-> exp, key |-> key]

\* generateJWT as it would be with an hour to the expiry
GenerateJWTHour(uid, email, t) ==
    [token |-> TokenString(uid, email, t + 60, SIGNING_KEY), exp |-> t + 60]

\* generateJWT(uid, email) at time t: the token and its expiry
GenerateJWT(uid, email, t) ==
    [token |-> TokenString(uid, email, t + TOKEN_MINUTES, SIGNING_KEY),
     exp |-> t + TOKEN_MINUTES]

\* TokenResp, which the cookie "token" repeats
TokenResp(jwt) == [name |-> "token", token |-> jwt.token, expiration |-> jwt.exp]

\* the parse as it would be without the check of the expiry
ParseWithClaimsNoExpiry(tokenStr, t) ==
    [err |-> tokenStr.key # SIGNING_KEY, claims |-> tokenStr]

\* jwt.ParseWithClaims with the signing key at time t: the signature is
\* checked, and StandardClaims.Valid rejects a token whose expiry is past
ParseWithClaims(tokenStr, t) ==
    [err |-> \/ tokenStr.key # SIGNING_KEY
             \/ (tokenStr.ExpiresAt # 0 /\ t > tokenStr.ExpiresAt),
     claims |-> tokenStr]

\* a string that is no token
NotAToken == TokenString(0, <<>>, 0, "")

\* strings.TrimPrefix(req.Header.Get("Authorization"), "Bearer "): the
\* header is a scheme followed by a string, and is left as it is under
\* another scheme
TrimPrefix(authorization) ==
    IF authorization.scheme \in {"Bearer ", ""} THEN authorization.cred ELSE NotAToken

\* the token string as it would be if the header came before the cookie
TokenStrOfHeaderFirst(r) ==
    IF r.authorization.scheme = "Bearer " THEN TrimPrefix(r.authorization)
    ELSE r.cookie.value

\* the token string authRequest parses: the value of the cookie "token" if
\* the request has one, the Authorization header without "Bearer " if not
TokenStrOf(r) ==
    IF ~r.cookie.present THEN TrimPrefix(r.authorization) ELSE r.cookie.value

\* authRequest(req) at time t
AuthRequestAt(r, t) ==
    LET parsed == ParseWithClaims(TokenStrOf(r), t)
    IN IF parsed.err THEN [err |-> TRUE, Uid |-> 0, Email |-> <<>>]
       ELSE [err |-> FALSE, Uid |-> parsed.claims.Uid, Email |-> parsed.claims.Email]

(***************************************************************************)
(* register                                                                *)
(***************************************************************************)
\* from the Content-Type check to UniqueEmail
Register(p, form, fault) ==
    /\ pc[p] = "idle"
    /\ LET user == User(0, form.firstname, form.lastname, form.email)
           r == [NoReq EXCEPT !.h = "register", !.params = form, !.meta = user]
           u == UniqueEmail(users, user.email, fault = "select")
       IN IF form.contentType # "multipart/form-data" THEN Respond(p, r, 400, <<>>)
          ELSE IF \/ Len(user.email) = 0 \/ Len(user.firstname) = 0
                  \/ Len(user.lastname) = 0 \/ Len(form.password) = 0
          THEN Respond(p, r, 400, <<>>)
          ELSE IF u.err THEN Respond(p, r, 500, <<>>)
          ELSE IF ~u.unique THEN Respond(p, r, 400, <<>>)
          ELSE Goto(p, r, "reg_user")
    /\ UNCHANGED <<images, accounts>>

\* user.Uid, err = AddUserData(user)
RegisterAddUser(p, fault) ==
    /\ pc[p] = "reg_user"
    /\ IF fault = "insert"
       THEN Respond(p, req[p], 500, <<>>) /\ UNCHANGED <<users, nextUid>>
       ELSE /\ users' = InsertObject(users, req[p].meta, nextUid)
            /\ nextUid' = nextUid + 1
            /\ Goto(p, [req[p] EXCEPT !.meta.id = nextUid], "reg_pass")
    /\ UNCHANGED <<images, passes, regs, now>>

\* bcrypt.GenerateFromPassword, AddUserPass(pass), generateJWT and the
\* response.  A failure of the hash or of the insertion is answered 500 and
\* followed by DeleteUserData(user), whose error is dropped: with
\* "hash+delete" and "pass+delete" that delete fails as well.
RegisterAddPass(p, fault) ==
    /\ pc[p] = "reg_pass"
    /\ LET user == req[p].meta
           pass == UserPassword(user.id, GenerateFromPassword(req[p].params.password))
       IN IF fault # "none" \/ user.id \in DOMAIN passes
          THEN /\ Respond(p, req[p], 500, <<>>)
               /\ users' = IF fault \in {"hash+delete", "pass+delete"} THEN users
                           ELSE DeleteObject(users, user)
               /\ UNCHANGED <<passes, regs>>
          ELSE /\ passes' = InsertObject(passes, pass, user.id)
               /\ regs' = regs \cup {[uid |-> user.id, email |-> user.email,
                                      password |-> req[p].params.password]}
               /\ Respond(p, req[p], 200, TokenResp(GenerateJWT(user.id, user.email, now)))
               /\ UNCHANGED users
    /\ UNCHANGED <<images, nextUid, now>>

(***************************************************************************)
(* auth                                                                    *)
(***************************************************************************)
\* req.BasicAuth() and the first select of GetHashedPass
\* the two messages auth writes with status 401
UNVERIFIED == <<"401 - Unauthorized, unable to verify this login attempt">>
INVALID_LOGIN == <<"401 - Unauthorized, invalid login">>

Auth(p, cred, fault) ==
    /\ pc[p] = "idle"
    /\ LET sel == SelectUsersWhere(users, QuotedCond("email", BasicAuth(cred).username))
           r == [NoReq EXCEPT !.h = "auth", !.params = cred]
       IN IF fault = "select" \/ sel.err THEN Respond(p, r, 401, UNVERIFIED)
          ELSE IF Cardinality(sel.ids) # 1 THEN Respond(p, r, 401, UNVERIFIED)
          ELSE Goto(p, [r EXCEPT !.meta = users[CHOOSE id \in sel.ids : TRUE]], "auth_pass")
    /\ UNCHANGED <<images, accounts>>

\* the second select of GetHashedPass, the comparison and the token.
\* GetHashedPass tests len(userRows) where it means len(passRows): without
\* a row in user_pass it reads passRows[0] of an empty slice and panics; the
\* server recovers, and closes the connection without an answer (status 0).
AuthPass(p, fault) ==
    /\ pc[p] = "auth_pass"
    /\ LET user == req[p].meta
           password == BasicAuth(req[p].params).password
       IN IF fault = "select" THEN Respond(p, req[p], 401, UNVERIFIED)
          ELSE IF user.id \notin DOMAIN passes THEN Respond(p, req[p], 0, <<"panic">>)
          ELSE IF ~CompareHashAndPassword(passes[user.id].hashed_pass, password)
          THEN Respond(p, req[p], 401, INVALID_LOGIN)
          ELSE Respond(p, req[p], 200, TokenResp(GenerateJWT(user.id, user.email, now)))
    /\ UNCHANGED <<images, accounts>>

(***************************************************************************)
(* The inputs of register and auth.                                        *)
(***************************************************************************)
EmailOf(u) == IF u = 1 THEN <<"a@x.io">> ELSE <<"b@x.io">>

\* an email with a quote in it: email='o'brien@x.io' is no statement
QuotedEmail == <<"o", "'", "brien@x.io">>

Emails == {EmailOf(1), QuotedEmail}
Passwords == {<<"pw1">>, <<"pw2">>}

Form(contentType, email, firstname, lastname, password) ==
    [contentType |-> contentType, email |-> email, firstname |-> firstname,
     lastname |-> lastname, password |-> password]

\* complete forms, forms that lack one field, and a form that is not multipart
RegisterForms ==
    {Form("multipart/form-data", e, <<"f">>, <<"l">>, w) : e \in Emails, w \in Passwords}
    \cup {Form("multipart/form-data", <<>>, <<"f">>, <<"l">>, <<"pw1">>),
          Form("multipart/form-data", EmailOf(2), <<>>, <<"l">>, <<"pw1">>),
          Form("multipart/form-data", EmailOf(2), <<"f">>, <<>>, <<"pw1">>),
          Form("multipart/form-data", EmailOf(2), <<"f">>, <<"l">>, <<>>),
          Form("application/json", EmailOf(2), <<"f">>, <<"l">>, <<"pw1">>)}

\* the credentials of GET /auth; <<>> is a request without them
Credentials ==
    {BasicCredentials(e, w) : e \in Emails, w \in Passwords} \cup {<<>>}

\* the account of an earlier run
OldUser == User(1, <<"f">>, <<"l">>, EmailOf(1))

\* no account is registered, or one is, with the password pw1
InitAccounts ==
    /\ rows = <<>> /\ nextId = 1 /\ blobs = <<>> /\ orig = <<>> /\ touched = {}
    /\ pc = [p \in Procs |-> "idle"]
    /\ req = [p \in Procs |-> NoReq]
    /\ resp = [p \in Procs |-> NoResp]
    /\ faults = 0
    /\ nreqs = 0
    /\ now = 0
    /\ \E old \in BOOLEAN :
          IF old
          THEN /\ users = [i \in {1} |-> OldUser]
               /\ passes = [i \in {1} |->
                               UserPassword(1, GenerateFromPassword(<<"pw1">>))]
               /\ nextUid = 2
               /\ regs = {[uid |-> 1, email |-> EmailOf(1), password |-> <<"pw1">>]}
          ELSE users = <<>> /\ passes = <<>> /\ nextUid = 1 /\ regs = {}

StartAccount(p) ==
    \/ \E form \in RegisterForms, f \in {"none", "select"} :
          Inject(f) /\ Register(p, form, f)
    \/ \E cred \in Credentials, f \in {"none", "select"} :
          Inject(f) /\ Auth(p, cred, f)

ContinueAccount(p) ==
    \/ \E f \in {"none", "insert"} : Inject(f) /\ RegisterAddUser(p, f)
    \/ \E f \in {"none", "hash", "hash+delete", "pass", "pass+delete"} :
          Inject(f) /\ RegisterAddPass(p, f)
    \/ \E f \in {"none", "select"} : Inject(f) /\ AuthPass(p, f)

NextAccounts ==
    \/ \E p \in Procs : Return(p) /\ UNCHANGED <<nreqs, faults, accounts>>
    \/ /\ ~Answering
       /\ nreqs < MaxAccountReqs
       /\ nreqs' = nreqs + 1
       /\ \E p \in Free : StartAccount(p)
    \/ /\ ~Answering
       /\ UNCHANGED nreqs
       /\ \E p \in {q \in Procs : pc[q] \notin {"idle", "done"}} : ContinueAccount(p)

SpecAccounts == InitAccounts /\ [][NextAccounts]_vars

(***************************************************************************)
(* authRequest against the clock.  Every image handler begins with         *)
(* authRequest and answers 401 on its error; AuthRequestStep is that       *)
(* beginning, with 200 and the claims for a handler that goes on.          *)
(***************************************************************************)
AuthRequestStep(p, r) ==
    /\ pc[p] = "idle"
    /\ LET claims == AuthRequestAt(r, now)
       IN Respond(p, [NoReq EXCEPT !.h = "authRequest", !.params = r],
                  IF claims.err THEN 401 ELSE 200, claims)
    /\ UNCHANGED <<images, accounts>>

\* the times at which the tokens that requests present were issued
IssueTimes == {0, 1}

\* a token signed with another key
Forged == TokenString(1, EmailOf(1), MaxTime + TOKEN_MINUTES, "forged")

\* the token strings a client can present at time t: the tokens issued so
\* far, a forged one and a string that is no token
TokenStrings(t) ==
    {GenerateJWT(u, EmailOf(u), t0).token : u \in Users, t0 \in {x \in IssueTimes : x <= t}}
    \cup {Forged, NotAToken}

NoCookie == [present |-> FALSE, value |-> NotAToken]
NoHeader == [scheme |-> "", cred |-> NotAToken]

\* the requests: with or without the cookie "token", with or without an
\* Authorization header
Requests(t) ==
    [cookie : {NoCookie} \cup {[present |-> TRUE, value |-> v] : v \in TokenStrings(t)},
     authorization : {NoHeader, [scheme |-> "Basic ", cred |-> NotAToken]}
                     \cup {[scheme |-> "Bearer ", cred |-> v] : v \in TokenStrings(t)}]

PasswordOf(u) == IF u = 1 THEN <<"pw1">> ELSE <<"pw2">>

\* the accounts of Users are registered and the clock is at its origin
InitToken ==
    /\ rows = <<>> /\ nextId = 1 /\ blobs = <<>> /\ orig = <<>> /\ touched = {}
    /\ pc = [p \in Procs |-> "idle"]
    /\ req = [p \in Procs |-> NoReq]
    /\ resp = [p \in Procs |-> NoResp]
    /\ faults = 0
    /\ nreqs = 0
    /\ now = 0
    /\ users = [u \in Users |-> User(u, <<"f">>, <<"l">>, EmailOf(u))]
    /\ passes = [u \in Users |-> UserPassword(u, GenerateFromPassword(PasswordOf(u)))]
    /\ nextUid = Cardinality(Users) + 1
    /\ regs = {[uid |-> u, email |-> EmailOf(u), password |-> PasswordOf(u)] : u \in Users}

\* time passes
Tick(d) ==
    /\ now + d <= MaxTime
    /\ now' = now + d
    /\ UNCHANGED <<images, pc, req, resp, faults, nreqs, users, passes, nextUid, regs>>

NextToken ==
    \/ Return("p1") /\ UNCHANGED <<nreqs, faults, accounts>>
    \/ ~Answering /\ \E d \in {1, TOKEN_MINUTES - 1} : Tick(d)
    \/ /\ ~Answering
       /\ \E u \in Users : Auth("p1", BasicCredentials(EmailOf(u), PasswordOf(u)), "none")
       /\ UNCHANGED <<nreqs, faults>>
    \/ ~Answering /\ AuthPass("p1", "none") /\ UNCHANGED <<nreqs, faults>>
    \/ /\ ~Answering
       /\ \E r \in Requests(now) : AuthRequestStep("p1", r)
       /\ UNCHANGED <<nreqs, faults>>

SpecToken == InitToken /\ [][NextToken]_vars

(***************************************************************************)
(* The image handlers on requests that carry no acceptable token.          *)
(***************************************************************************)
\* what authRequest makes of request r at time t, as the handlers take it;
\* r is kept beside it (history)
Credential(r, t) ==
    LET claims == AuthRequestAt(r, t)
    IN [valid |-> ~claims.err, uid |-> claims.Uid, r |-> r]

\* the token strings that are malformed, signed with another key or expired
BadStrings(t) ==
    {NotAToken, Forged}
    \cup {s \in TokenStrings(t) : s.key = SIGNING_KEY /\ s.ExpiresAt < t}

\* the requests without a token or with such token strings only
BadRequests(t) ==
    {r \in Requests(t) :
        /\ r.cookie.present => r.cookie.value \in BadStrings(t)
        /\ r.authorization.scheme = "Bearer " => r.authorization.cred \in BadStrings(t)}

\* user 1 is registered and has a private image; the clock is at its origin
InitGuard ==
    /\ rows = [i \in {1} |-> OldImage(FALSE)]
    /\ nextId = 2
    /\ blobs = [f \in {FileRefStr(1, 1, <<"png">>)} |-> PngBytes]
    /\ orig = [i \in {1} |-> PngBytes]
    /\ touched = {}
    /\ pc = [p \in Procs |-> "idle"]
    /\ req = [p \in Procs |-> NoReq]
    /\ resp = [p \in Procs |-> NoResp]
    /\ faults = 0
    /\ nreqs = 0
    /\ now = 0
    /\ users = [u \in {1} |-> OldUser]
    /\ passes = [u \in {1} |-> UserPassword(1, GenerateFromPassword(<<"pw1">>))]
    /\ nextUid = 2
    /\ regs = {[uid |-> 1, email |-> EmailOf(1), password |-> <<"pw1">>]}

NextGuard ==
    \/ Return("p1") /\ UNCHANGED <<nreqs, faults, accounts>>
    \/ ~Answering /\ \E d \in {1, TOKEN_MINUTES - 1} : Tick(d)
    \/ /\ ~Answering
       /\ \E r \in BadRequests(now), params \in SmallParams :
             ImageMetaRequest("p1", Credential(r, now), params, "none")
       /\ UNCHANGED <<nreqs, faults, accounts>>
    \/ /\ ~Answering
       /\ \E r \in BadRequests(now) :
             GetImage("p1", Credential(r, now), Itoa(1), Itoa(1) \o <<".", "png">>, "none")
       /\ UNCHANGED <<nreqs, faults, accounts>>
    \/ /\ ~Answering
       /\ \E r \in BadRequests(now), form \in Forms :
             AddImage("p1", Credential(r, now), form, "none")
       /\ UNCHANGED <<nreqs, faults, accounts>>
    \/ /\ ~Answering
       /\ \E r \in BadRequests(now), body \in Bodies :
             UpdateImage("p1", Credential(r, now), Itoa(1), Itoa(1) \o <<".", "png">>,
                         body, "none")
       /\ UNCHANGED <<nreqs, faults, accounts>>
    \/ /\ ~Answering
       /\ \E r \in BadRequests(now) :
             DelImage("p1", Credential(r, now), Itoa(1), Itoa(1) \o <<".", "png">>, "none")
       /\ UNCHANGED <<nreqs, faults, accounts>>

SpecGuard == InitGuard /\ [][NextGuard]_vars

(***************************************************************************)
(* The properties.  A handler p with pc[p] = "done" has just answered:     *)
(* resp[p] is its response and req[p] holds what it read on the way.       *)
(***************************************************************************)
Min(a, b) == IF a < b THEN a ELSE b
Max(a, b) == IF a > b THEN a ELSE b

\* base-url/image/ownerId/id.ext and the path of the blob, written out
ExpectedRef(uid, id, ext) ==
    <<"localhost:8000", "/", "image", "/", ToString(uid), "/", ToString(id), ".", ext>>
ExpectedPath(uid, id, ext) ==
    <<".", "/", "image", "/", ToString(uid), "/", ToString(id), ".", ext>>

\* the storage path derived from a row's owner id, id and encoding
PathOfRow(row) == ExpectedPath(row.uid, row.id, row.encoding[3])

Answered(p, h) == pc[p] = "done" /\ req[p].h = h

\* C1: a getImage request of an authenticated caller B on an existing record
\* R whose blob exists, B not the owner: with R.shareable false the response
\* is 401 without bytes, with R.shareable true it is 200 with exactly the
\* bytes that were uploaded.
C1SharedRead ==
    \A p \in Procs :
        (/\ Answered(p, "get") /\ req[p].tok.valid
         /\ req[p].meta.id \in DOMAIN rows
         /\ VarsPath(req[p].vuid, req[p].fileId) = PathOfRow(req[p].meta)
         /\ PathOfRow(req[p].meta) \in DOMAIN blobs
         /\ req[p].uid # req[p].meta.uid)
        => IF req[p].meta.shareable
           THEN resp[p].status = 200 /\ resp[p].body = orig[req[p].meta.id]
           ELSE resp[p].status = 401 /\ resp[p].body = <<>>

\* C2: an updateImage or delImage request of a caller who is not the owner of
\* the record it names is rejected in the step that reads the record, whatever
\* the record's shareable flag and the owner id in the path, and that step
\* leaves the table and the blobs as they were.
C2NonOwnerRejected ==
    [][\A p \in Procs :
          (/\ pc[p] = "idle" /\ pc'[p] # "idle"
           /\ req'[p].h \in {"update", "del"}
           /\ req'[p].meta.id # 0
           /\ req'[p].uid # req'[p].meta.uid)
          => (/\ pc'[p] = "done"
              /\ resp'[p].status \in {400, 401}
              /\ rows' = rows /\ blobs' = blobs)]_vars

\* a non-owner's update or delete of a shareable record, with the owner's id
\* in the path, has been answered by the permission check
C2Witness ==
    \E p \in Procs :
        /\ pc[p] = "done" /\ req[p].h \in {"update", "del"}
        /\ req[p].meta.id # 0 /\ req[p].meta.shareable
        /\ req[p].uid # req[p].meta.uid
        /\ req[p].vuid = <<ToString(req[p].meta.uid)>>
        /\ resp[p].status = 401 /\ resp[p].at = "idle"

FilterNames == {"id", "uid", "title", "encoding", "shareable"}

\* the text a filter's value is compared with
FieldText(row, k) ==
    IF k = "id" THEN <<ToString(row.id)>>
    ELSE IF k = "uid" THEN <<ToString(row.uid)>>
    ELSE IF k = "shareable" THEN (IF row.shareable THEN <<"true">> ELSE <<"false">>)
    ELSE row[k]

SatisfiesFilters(row, params) ==
    \A k \in DOMAIN params \cap FilterNames : FieldText(row, k) = params[k]

\* (owner == U) OR (shareable == true)
Visible(row, U) == row.uid = U \/ row.shareable

\* C3: a metadata query of caller U with at least one filter, whatever the
\* values: every record returned is U's or shareable, and totalResults counts
\* the records that are U's or shareable and satisfy all the filters.
C3FilteredQueryScoped ==
    \A p \in Procs :
        (/\ Answered(p, "query") /\ resp[p].status = 200
         /\ DOMAIN req[p].params \cap FilterNames # {})
        => /\ \A k \in 1..Len(resp[p].body.imageMeta) :
                 Visible(resp[p].body.imageMeta[k], req[p].uid)
           /\ resp[p].body.totalResults =
                 Cardinality({id \in DOMAIN rows :
                     /\ Visible(rows[id], req[p].uid)
                     /\ SatisfiesFilters(rows[id], req[p].params)})

\* C4: a metadata query of caller U without filters (no parameter, or the
\* page alone) returns rows of U only, each as stored and none twice,
\* min(50, max(0, N - 50 * page)) of the N rows U owns, all of them when they
\* fit the first page; totalResults is N.
C4UnscopedQueryOwnRows ==
    \A p \in Procs :
        (/\ Answered(p, "query") /\ resp[p].status = 200
         /\ DOMAIN req[p].params \subseteq {"page"})
        => LET got == resp[p].body.imageMeta
               owned == {id \in DOMAIN rows : rows[id].uid = req[p].uid}
               N == Cardinality(owned)
           IN /\ \A k \in 1..Len(got) : got[k].id \in owned /\ rows[got[k].id] = got[k]
              /\ \A j, k \in 1..Len(got) : j # k => got[j].id # got[k].id
              /\ Len(got) = Min(50, Max(0, N - 50 * resp[p].body.page))
              /\ (resp[p].body.page = 0 /\ N <= 50) =>
                     {got[k].id : k \in 1..Len(got)} = owned
              /\ resp[p].body.totalResults = N

\* an unfiltered query returned rows while the table held a shareable row of
\* another user
C4Witness ==
    \E p \in Procs :
        /\ Answered(p, "query") /\ resp[p].status = 200
        /\ DOMAIN req[p].params \subseteq {"page"}
        /\ Len(resp[p].body.imageMeta) > 0
        /\ \E id \in DOMAIN rows : rows[id].uid # req[p].uid /\ rows[id].shareable

\* the row an upload inserted, once the upload has failed at one of the places
UploadFailedAt(p, places) ==
    /\ Answered(p, "add") /\ resp[p].at \in places /\ resp[p].status # 200

\* C5: when the reference update of an upload has failed, the row the upload
\* inserted does not persist once the request has completed.
C5RefUpdateFailureNoRow ==
    \A p \in Procs :
        UploadFailedAt(p, {"add_update"}) => req[p].meta.id \notin DOMAIN rows

\* C6: when creating the blob file or copying the bytes has failed, the
\* request ends with 500 and the row the upload inserted no longer exists.
C6BlobFailureNoRow ==
    \A p \in Procs :
        UploadFailedAt(p, {"add_create", "add_copy"})
        => resp[p].status = 500 /\ req[p].meta.id \notin DOMAIN rows

UploadInProgress == \E p \in Procs : pc[p] \in {"add_update", "add_create", "add_copy"}

\* C7: while no upload is in progress, every row of the table has a blob at
\* the path derived from its owner id, its id and its encoding.
C7RowsHaveBlobs ==
    ~UploadInProgress => \A id \in DOMAIN rows : PathOfRow(rows[id]) \in DOMAIN blobs

\* C8: no response of a metadata query, an update or an upload carries a
\* record whose reference is empty.
C8NoEmptyReference ==
    \A p \in Procs :
        (pc[p] = "done" /\ resp[p].status = 200)
        => /\ req[p].h = "query" =>
                 \A k \in 1..Len(resp[p].body.imageMeta) :
                     resp[p].body.imageMeta[k].ref # <<>>
           /\ req[p].h \in {"update", "add"} => resp[p].body.ref # <<>>

\* the extension of the sniffed type of an accepted content
SniffedExt(content) == IF content[1] = "PNGSIG" THEN "png" ELSE "jpeg"

\* what every upload answered with 200 returns: the owner is the uid of the
\* token, the id is the one the store assigned to this upload alone, the
\* reference is base-url/image/ownerId/id.ext with ext of the sniffed type
UploadRecord(p) ==
    LET rec == resp[p].body
    IN /\ req[p].content[1] \in {"PNGSIG", "JPGSIG"}
       /\ rec.uid = req[p].tok.uid
       /\ rec.id \in DOMAIN orig /\ rec.id < nextId /\ orig[rec.id] = req[p].content
       /\ \A q \in Procs \ {p} : req[q].h = "add" => req[q].meta.id # rec.id
       /\ rec.ref = ExpectedRef(rec.uid, rec.id, SniffedExt(req[p].content))

\* on return the stored row equals the returned record and the blob holds
\* the complete uploaded bytes
UploadStored(p) ==
    LET rec == resp[p].body
        path == ExpectedPath(rec.uid, rec.id, SniffedExt(req[p].content))
    IN /\ rec.id \in DOMAIN rows /\ rows[rec.id] = rec
       /\ path \in DOMAIN blobs /\ blobs[path] = req[p].content

\* C9 (as stated): every upload answered with 200 returns that record, and
\* on return the stored row equals it and the blob holds the uploaded bytes.
C9UploadStoredAlways ==
    \A p \in Procs :
        (Answered(p, "add") /\ resp[p].status = 200) => UploadRecord(p) /\ UploadStored(p)

\* C9 (amended): every upload answered with 200 returns that record; the
\* stored row equals it and the blob holds the uploaded bytes on return
\* unless an update or a delete request has written the record meanwhile.
C9UploadStoredUntouched ==
    \A p \in Procs :
        (Answered(p, "add") /\ resp[p].status = 200)
        => /\ UploadRecord(p)
           /\ resp[p].body.id \notin touched => UploadStored(p)

\* user 2's upload of a PNG under the title a.bin has been answered with 200
\* while another handler is at work, and no request has written the record
C9Witness ==
    \E p \in Procs :
        /\ Answered(p, "add") /\ resp[p].status = 200
        /\ req[p].tok.uid = 2
        /\ resp[p].body.title = <<"a", ".", "png">>
        /\ resp[p].body.id \notin touched
        /\ \E q \in Procs \ {p} : pc[q] \notin {"idle", "done"}

\* the page index the caller sent: the number in the page parameter, 0
\* when the parameter is absent or no number
PageSent(params) ==
    IF "page" \in DOMAIN params /\ \E n \in 0..(MaxPage + 1) : params["page"] = <<ToString(n)>>
    THEN CHOOSE n \in 0..(MaxPage + 1) : params["page"] = <<ToString(n)>>
    ELSE 0

\* C10: a query whose predicate matches N rows returns, on page p,
\* min(50, max(0, N - 50 * p)) records; pageSize is 50 and totalResults is N
\* on every page.
C10Pagination ==
    \A p \in Procs :
        (Answered(p, "query") /\ resp[p].status = 200)
        => LET N == Cardinality(Matching(rows, QueryString(req[p].uid, req[p].params)))
               pg == PageSent(req[p].params)
           IN /\ Len(resp[p].body.imageMeta) = Min(50, Max(0, N - 50 * pg))
              /\ resp[p].body.pageSize = 50
              /\ resp[p].body.totalResults = N
              /\ resp[p].body.page = pg

\* the third page of more than a hundred matching rows holds the remainder
C10Witness ==
    \E p \in Procs :
        /\ Answered(p, "query") /\ resp[p].status = 200
        /\ PageSent(req[p].params) = 2
        /\ resp[p].body.totalResults > 100
        /\ Len(resp[p].body.imageMeta) = resp[p].body.totalResults - 100

\* the query string carries no page, or one that is not a number
NoPageNumber(params) ==
    ~ \E n \in 0..(MaxPage + 1) : Get(params, "page") = <<ToString(n)>>

\* C11: a metadata query whose page parameter is missing or does not parse as
\* an integer is not rejected: it is answered 200 as page 0, with page = 0 in
\* the response and the rows from offset 0 of the matching rows.
C11PageDefaultsToZero ==
    \A p \in Procs :
        (Answered(p, "query") /\ NoPageNumber(req[p].params))
        => LET query == QueryString(req[p].uid, req[p].params)
               first == SelectFromWhere(rows, query \o <<" LIMIT ">> \o Itoa(50)
                                                   \o <<" OFFSET ">> \o Itoa(0))
           IN /\ resp[p].status = 200
              /\ resp[p].body.page = 0
              /\ resp[p].body.imageMeta = first.rows
              /\ Len(resp[p].body.imageMeta)
                    = Min(50, Cardinality(Matching(rows, query)))

\* a query for page "x" of more than fifty matching rows is answered with the
\* first fifty
C11Witness ==
    \E p \in Procs :
        /\ Answered(p, "query") /\ resp[p].status = 200
        /\ Get(req[p].params, "page") = <<"x">>
        /\ resp[p].body.totalResults > 50
        /\ resp[p].body.page = 0
        /\ Len(resp[p].body.imageMeta) = 50

\* C18: an owner's delete whose row deletion has succeeded is answered 200
\* whether or not the deletion of the blob succeeds, and the row is gone when
\* it is answered: a failure to remove the blob is never answered as an error.
C18DeleteAnswers200 ==
    \A p \in Procs :
        (Answered(p, "del") /\ resp[p].at = "del_blob")
        => /\ resp[p].status = 200
           /\ req[p].meta.id \notin DOMAIN rows

\* a delete answered 200 after its row was deleted, the file of its path
\* still in place
C18Witness ==
    \E p \in Procs :
        /\ Answered(p, "del") /\ resp[p].at = "del_blob"
        /\ resp[p].status = 200
        /\ req[p].uid = req[p].meta.uid
        /\ req[p].meta.id \notin DOMAIN rows
        /\ VarsPath(req[p].vuid, req[p].fileId) = PathOfRow(req[p].meta)
        /\ PathOfRow(req[p].meta) \in DOMAIN blobs

\* the owner id of the path of request r, as a number
PathUid(r) == CHOOSE u \in Users : r.vuid = <<ToString(u)>>

\* C19: an update or delete with a valid token on an existing record is
\* answered 400 when the owner id of the path differs from the record's
\* owner, also when the caller is not the owner; it is answered 401 for a
\* non-owner only when the path's owner id equals the record's owner; and
\* the store is written only after both checks have passed.
C19MismatchBeforePermission ==
    [][\A p \in Procs :
          /\ (/\ pc[p] = "idle" /\ pc'[p] # "idle"
              /\ req'[p].h \in {"update", "del"}
              /\ req'[p].meta.id # 0)
             => LET r == req'[p]
                    answered(st) == pc'[p] = "done" /\ resp'[p].status = st
                IN /\ rows' = rows /\ blobs' = blobs
                   /\ PathUid(r) # r.meta.uid => answered(400)
                   /\ (PathUid(r) = r.meta.uid /\ r.uid # r.meta.uid) => answered(401)
                   /\ answered(401) => (PathUid(r) = r.meta.uid /\ r.uid # r.meta.uid)
          /\ (pc'[p] \in {"upd_write", "del_row"} \/ (pc[p] \in {"upd_write", "del_row"} /\ rows' # rows))
             => (PathUid(req'[p]) = req'[p].meta.uid /\ req'[p].uid = req'[p].meta.uid)]_vars

\* a caller who does not own the record and names another owner in the path
\* has been answered 400 by the mismatch check
C19Witness ==
    \E p \in Procs :
        /\ pc[p] = "done" /\ req[p].h \in {"update", "del"}
        /\ req[p].meta.id # 0
        /\ req[p].uid # req[p].meta.uid
        /\ PathUid(req[p]) # req[p].meta.uid
        /\ resp[p].status = 400 /\ resp[p].at = "idle"

\* C20: an owner's update that no other writer runs across (the row is, when
\* it is written, as the request read it) changes the stored title only if
\* the body carries a non-empty title and the stored shareable flag only if
\* the body carries shareable as true or false, which it then takes; an
\* absent or empty title and an absent shareable leave the values as stored.
C20UpdateFrame ==
    [][\A p \in Procs :
          (/\ pc[p] = "upd_write" /\ pc'[p] = "done" /\ resp'[p].status = 200
           /\ req[p].read.id \in DOMAIN rows
           /\ rows[req[p].read.id] = req[p].read)
          => LET id == req[p].read.id
                 b == req[p].params.m
                 title == IF "title" \in DOMAIN b THEN b["title"] ELSE <<>>
                 shareable == IF "shareable" \in DOMAIN b THEN b["shareable"] ELSE <<>>
             IN /\ id \in DOMAIN rows'
                /\ rows'[id].title # rows[id].title => title # <<>>
                /\ rows'[id].shareable # rows[id].shareable
                      => shareable \in {<<"true">>, <<"false">>}
                /\ shareable = <<"true">> => rows'[id].shareable
                /\ shareable = <<"false">> => ~rows'[id].shareable
                /\ [rows'[id] EXCEPT !.title = <<>>, !.shareable = FALSE]
                      = [rows[id] EXCEPT !.title = <<>>, !.shareable = FALSE]]_vars

\* an update whose body has an empty title and shareable "yes" was answered
\* 200 and the row is as it was read
C20Witness ==
    \E p \in Procs :
        /\ Answered(p, "update") /\ resp[p].status = 200 /\ resp[p].at = "upd_write"
        /\ "title" \in DOMAIN req[p].params.m
        /\ "shareable" \in DOMAIN req[p].params.m
        /\ req[p].params.m["shareable"] = <<"yes">>
        /\ req[p].read.id \in DOMAIN rows
        /\ rows[req[p].read.id] = req[p].read

\* C12: for every account that a registration answered 200 has created, an
\* auth request with its email and the password of the registration is
\* answered 200 with a token for the id the registration produced (the store
\* not failing); with that email and any other password it is answered 401.
C12AuthByRegistration ==
    \A p \in Procs :
        Answered(p, "auth")
        => LET ba == BasicAuth(req[p].params)
               mine == {g \in regs : g.email = ba.username}
           IN /\ (faults = 0 /\ \E g \in mine : g.password = ba.password)
                 => /\ resp[p].status = 200
                    /\ \E g \in mine : /\ g.password = ba.password
                                        /\ resp[p].body.token.Uid = g.uid
              /\ (mine # {} /\ \A g \in mine : g.password # ba.password)
                 => resp[p].status = 401

\* no register request is between its first and its last store call
NoRegisterInProgress ==
    \A p \in Procs : req[p].h = "register" => pc[p] \in {"idle", "done"}

\* C15: when the register requests have completed, also those in which the
\* hash, the storage of the credential or the compensating delete of the
\* account failed, every account row has a credential row of the same id.
C15AccountsHaveCredentials ==
    NoRegisterInProgress => \A id \in DOMAIN users : id \in DOMAIN passes

\* C16: in every reachable state, those reached by concurrent register
\* requests for one email included, at most one account row holds an email.
C16EmailsUnique ==
    \A i, j \in DOMAIN users : users[i].email = users[j].email => i = j

\* the form of a register request lacks a required field
Lacking(form) ==
    \/ form.firstname = <<>> \/ form.lastname = <<>>
    \/ form.email = <<>> \/ form.password = <<>>

\* an account row holds the email
EmailHeld(email) == \E id \in DOMAIN users : users[id].email = email

\* C17: a register request that lacks firstname, lastname, email or password,
\* or whose email an account holds already (the lookup of the email not
\* failing), is answered 400 at once, and the accounts and the credentials
\* are as they were.
C17RegisterRejected ==
    [][\A p \in Procs :
          (/\ pc[p] = "idle" /\ pc'[p] # "idle"
           /\ req'[p].h = "register"
           /\ \/ Lacking(req'[p].params)
              \/ EmailHeld(req'[p].params.email) /\ faults' = faults)
          => (/\ pc'[p] = "done"
              /\ resp'[p].status = 400
              /\ users' = users /\ passes' = passes)]_vars

\* a complete form with the email of an account has been answered 400
C17Witness ==
    \E p \in Procs :
        /\ Answered(p, "register") /\ resp[p].status = 400
        /\ ~Lacking(req[p].params)
        /\ req[p].params.contentType = "multipart/form-data"
        /\ EmailHeld(req[p].params.email)
        /\ \E q \in Procs : q # p /\ req[q].h = "register" /\ pc[q] = "reg_pass"

\* the request presents one token string: in the cookie and no header, or
\* in a bearer header and no cookie
Presented(r) ==
    IF r.cookie.present /\ r.authorization = NoHeader THEN {r.cookie.value}
    ELSE IF ~r.cookie.present /\ r.authorization.scheme = "Bearer "
    THEN {r.authorization.cred}
    ELSE {}

\* C13: the token generateJWT produces expires exactly 30 minutes after it
\* is issued and carries the owner id and the email it was made for; a
\* token of generateJWT presented to authRequest validates to its owner id
\* and email at any time before its expiry, and fails at any time after.
C13TokenLifetime ==
    \A p \in Procs :
        /\ (Answered(p, "auth") /\ resp[p].status = 200)
           => /\ resp[p].body.token.ExpiresAt = now + 30
              /\ resp[p].body.expiration = now + 30
              /\ resp[p].body.token.Uid = req[p].meta.id
              /\ resp[p].body.token.Email = req[p].meta.email
        /\ Answered(p, "authRequest")
           => \A tok \in Presented(req[p].params) :
                 tok.key = SIGNING_KEY
                 => /\ now < tok.ExpiresAt
                       => /\ resp[p].status = 200
                          /\ resp[p].body.Uid = tok.Uid
                          /\ resp[p].body.Email = tok.Email
                    /\ now > tok.ExpiresAt => resp[p].status = 401

\* a token issued at time 0 is refused in the minute after its expiry
C13Witness ==
    \E p \in Procs :
        /\ Answered(p, "authRequest") /\ resp[p].status = 401
        /\ \E tok \in Presented(req[p].params) :
              tok.key = SIGNING_KEY /\ tok.ExpiresAt = 30 /\ now = 31

\* the token string is one generateJWT made and its expiry is not past
Unexpired(tok) == tok.key = SIGNING_KEY /\ now <= tok.ExpiresAt

\* C14: on a request with the cookie "token" authRequest decides on the
\* cookie alone, whatever the Authorization header holds: an invalid or
\* expired cookie is an AuthError also beside a valid bearer token.  The
\* bearer token decides only on a request without the cookie.
C14CookieFirst ==
    \A p \in Procs :
        Answered(p, "authRequest")
        => LET r == req[p].params
               decides == IF r.cookie.present THEN r.cookie.value
                          ELSE IF r.authorization.scheme = "Bearer "
                          THEN r.authorization.cred
                          ELSE NotAToken
           IN IF Unexpired(decides)
              THEN /\ resp[p].status = 200
                   /\ resp[p].body.Uid = decides.Uid
                   /\ resp[p].body.Email = decides.Email
              ELSE resp[p].status = 401

\* an expired cookie beside a bearer token that is still valid: refused
C14Witness ==
    \E p \in Procs :
        /\ Answered(p, "authRequest") /\ resp[p].status = 401
        /\ req[p].params.cookie.present
        /\ req[p].params.cookie.value.key = SIGNING_KEY
        /\ ~Unexpired(req[p].params.cookie.value)
        /\ req[p].params.authorization.scheme = "Bearer "
        /\ Unexpired(req[p].params.authorization.cred)

\* the content begins with the signature of a PNG or of a JPEG
SniffedAccepted(content) ==
    Len(content) > 0 /\ content[1] \in {"PNGSIG", "JPGSIG"}

\* C21: an upload whose content is not sniffed as image/jpeg or image/png,
\* empty content included, is rejected with 400 whatever the form declares,
\* and creates no row and no blob.
C21UnacceptedContentRejected ==
    [][\A p \in Procs :
          (/\ pc[p] = "idle" /\ pc'[p] # "idle"
           /\ req'[p].h = "add" /\ req'[p].tok.valid
           /\ ~SniffedAccepted(req'[p].params.content))
          => (/\ pc'[p] = "done"
              /\ resp'[p].status = 400
              /\ rows' = rows /\ blobs' = blobs)]_vars

\* C22: the record an upload creates is shareable exactly if the form field
\* shareable is the string true: without the field, or with another value,
\* the row inserted and the record returned are not shareable.
C22ShareableOnlyIfTrue ==
    [][\A p \in Procs :
          /\ (pc[p] = "idle" /\ pc'[p] = "add_update")
             => LET id == req'[p].meta.id
                IN /\ id \in DOMAIN rows' /\ id \notin DOMAIN rows
                   /\ rows'[id].shareable = (req'[p].params.shareable = <<"true">>)
          /\ (pc'[p] = "done" /\ req'[p].h = "add" /\ resp'[p].status = 200)
             => resp'[p].body.shareable = (req'[p].params.shareable = <<"true">>)]_vars

\* an upload with shareable "yes" has returned a record that is not shareable
C22Witness ==
    \E p \in Procs :
        /\ Answered(p, "add") /\ resp[p].status = 200
        /\ req[p].params.shareable = <<"yes">>
        /\ ~resp[p].body.shareable
        /\ req[p].meta.id \in DOMAIN rows /\ ~rows[req[p].meta.id].shareable

ImageHandlers == {"query", "get", "add", "update", "del"}

\* C23: a request to upload, read, update, delete or query images that
\* carries no token, a malformed token, a token signed with another key or
\* an expired token is answered 401 at once: it writes nothing to the table
\* and to the blob store and does not come to read a blob.
C23BadTokenRejected ==
    [][\A p \in Procs :
          (/\ pc[p] = "idle" /\ pc'[p] # "idle"
           /\ req'[p].h \in ImageHandlers
           /\ req'[p].tok.r \in BadRequests(now))
          => (/\ pc'[p] = "done"
              /\ resp'[p].status = 401 /\ resp'[p].at = "idle"
              /\ rows' = rows /\ blobs' = blobs /\ nextId' = nextId)]_vars

\* a delete with an expired cookie and an expired bearer token has been
\* answered 401, the row and its blob in place
C23Witness ==
    \E p \in Procs :
        /\ Answered(p, "del") /\ resp[p].status = 401
        /\ req[p].tok.r.cookie.present
        /\ req[p].tok.r.cookie.value.key = SIGNING_KEY
        /\ req[p].tok.r.cookie.value.ExpiresAt < now
        /\ req[p].tok.r.authorization.scheme = "Bearer "
        /\ req[p].tok.r.authorization.cred.key = SIGNING_KEY
        /\ 1 \in DOMAIN rows /\ PathOfRow(rows[1]) \in DOMAIN blobs

\* C24: auth answers alike, with the same status and the same message, when
\* no account has the email, when the account has no credential row and when
\* the password is wrong.
C24FailuresAlike ==
    \A p \in Procs :
        (Answered(p, "auth") /\ resp[p].status # 200)
        => (resp[p].status = 401 /\ resp[p].body = UNVERIFIED)

\* C25: when the email is that of exactly one account and the lookup of its
\* credential does not give exactly one row, GetHashedPass returns an error
\* and auth answers 401.
C25MissingCredential401 ==
    \A p \in Procs :
        (/\ Answered(p, "auth") /\ resp[p].at = "auth_pass"
         /\ req[p].meta.id \notin DOMAIN passes)
        => resp[p].status = 401

UploadSteps == {"add_update", "add_create", "add_copy"}

\* the path at which upload p creates and writes its file
UploadPath(p) == FileRefStr(req[p].meta.uid, req[p].meta.id, req[p].ext)

IsPrefix(s, t) == Len(s) <= Len(t) /\ s = SubSeq(t, 1, Len(s))

\* C26: uploads that run at the same time have different (owner id, record
\* id) pairs and different blob paths; an upload creates its file at a path
\* where no file is, and the bytes at a path change only by the copy of the
\* upload whose path it is, to bytes of that upload's content.
C26UploadsDisjoint ==
    [][/\ \A p, q \in Procs :
             (p # q /\ pc'[p] \in UploadSteps /\ pc'[q] \in UploadSteps)
             => /\ <<req'[p].meta.uid, req'[p].meta.id>> # <<req'[q].meta.uid, req'[q].meta.id>>
                /\ FileRefStr(req'[p].meta.uid, req'[p].meta.id, req'[p].ext)
                   # FileRefStr(req'[q].meta.uid, req'[q].meta.id, req'[q].ext)
       /\ \A p \in Procs :
             (pc[p] = "add_create" /\ pc'[p] = "add_copy")
             => UploadPath(p) \notin DOMAIN blobs
       /\ \A f \in DOMAIN blobs' :
             (f \notin DOMAIN blobs \/ blobs'[f] # blobs[f])
             => \E p \in Procs :
                   /\ pc[p] \in {"add_create", "add_copy"} /\ pc'[p] # pc[p]
                   /\ f = UploadPath(p)
                   /\ IsPrefix(blobs'[f], req[p].content)
                   /\ \A q \in Procs \ {p} :
                         pc[q] \in UploadSteps => UploadPath(q) # f]_vars

\* two uploads of one user, of the same type, have both created their files
C26Witness ==
    /\ pc["p1"] = "add_copy" /\ pc["p2"] = "add_copy"
    /\ req["p1"].meta.uid = req["p2"].meta.uid
    /\ req["p1"].ext = req["p2"].ext
    /\ UploadPath("p1") \in DOMAIN blobs /\ UploadPath("p2") \in DOMAIN blobs

\* C27: an update that reaches its write is neither rejected nor retried
\* because the row has changed since it was read: unless the store fails it
\* is answered 200, and the row of its id is then the whole row that it
\* wrote, so that of two concurrent updates of a record the row of the one
\* that wrote last stays.
C27LastWriterWins ==
    [][\A p \in Procs :
          (pc[p] = "upd_write" /\ pc'[p] # "upd_write")
          => /\ pc'[p] = "done"
             /\ faults' = faults => resp'[p].status = 200
             /\ (resp'[p].status = 200 /\ req[p].meta.id \in DOMAIN rows)
                => /\ rows' = [rows EXCEPT ![req[p].meta.id] = req[p].meta]
                   /\ resp'[p].body = req[p].meta]_vars

\* an update has been answered 200 that replaced a row whose title another
\* update had changed since this update read it; the row is the row this
\* update wrote, with the title it had read
C27Witness ==
    \E p \in Procs :
        /\ Answered(p, "update") /\ resp[p].status = 200 /\ resp[p].at = "upd_write"
        /\ req[p].over.id = req[p].meta.id
        /\ req[p].over.ref = req[p].read.ref
        /\ req[p].over.title # req[p].read.title
        /\ req[p].meta.id \in DOMAIN rows
        /\ rows[req[p].meta.id] = req[p].meta
        /\ rows[req[p].meta.id].title = req[p].read.title

\* C28: an upload that fails at the update of the reference, at the creation
\* of the file or at the copy is answered 500, whether its compensating
\* delete succeeds or fails; the delete is tried once: when it succeeds the
\* row of the upload is gone, when it fails the row stays as it is.
C28FailedUpload500 ==
    [][\A p \in Procs :
          (pc[p] \in UploadSteps /\ pc'[p] # pc[p] /\ faults' # faults)
          => /\ pc'[p] = "done"
             /\ resp'[p].status = 500 /\ resp'[p].at = pc[p]
             /\ faults' = faults + 1 => rows' = DeleteObject(rows, req[p].meta)
             /\ faults' = faults + 2 => rows' = rows]_vars

\* an upload whose copy and whose compensating delete failed has been
\* answered 500, its row still in the table
C28Witness ==
    \E p \in Procs :
        /\ Answered(p, "add") /\ resp[p].status = 500 /\ resp[p].at = "add_copy"
        /\ faults = 2
        /\ req[p].meta.id \in DOMAIN rows
        /\ rows[req[p].meta.id].ref = RefOf(req[p].meta.uid, req[p].meta.id, req[p].ext)

\* upload q has inserted its row and has not created its file
InWindow(q) ==
    /\ pc[q] \in {"add_update", "add_create"}
    /\ req[q].meta.id \in DOMAIN rows
    /\ UploadPath(q) \notin DOMAIN blobs

\* C29: a read by the owner at the URL of an upload that has inserted its
\* row and not yet created its file finds the row when the store does not
\* fail (it is not answered 404 and goes on to the file) and, reading the
\* file in that window, is answered 500, never 200.
C29ReadInWindow500 ==
    [][\A p, q \in Procs :
          /\ (/\ pc[p] = "idle" /\ pc'[p] # "idle" /\ req'[p].h = "get"
              /\ faults' = faults
              /\ InWindow(q)
              /\ req'[p].tok.valid /\ req'[p].tok.uid = req[q].meta.uid
              /\ VarsPath(req'[p].vuid, req'[p].fileId) = UploadPath(q))
             => pc'[p] = "get_read"
          /\ (/\ pc[p] = "get_read" /\ pc'[p] # "get_read"
              /\ InWindow(q)
              /\ req[p].uid = req[q].meta.uid
              /\ VarsPath(req[p].vuid, req[p].fileId) = UploadPath(q))
             => pc'[p] = "done" /\ resp'[p].status = 500]_vars

\* without any injected failure the owner's read has been answered 500 by
\* the file read, the upload still before the creation of its file
C29Witness ==
    \E p, q \in Procs :
        /\ Answered(p, "get") /\ resp[p].status = 500 /\ resp[p].at = "get_read"
        /\ faults = 0
        /\ InWindow(q)
        /\ req[p].uid = req[q].meta.uid
        /\ VarsPath(req[p].vuid, req[p].fileId) = UploadPath(q)

\* C30: an upload inserts its row, updates the reference, creates its file
\* and copies, in this order: a file appears only by the creation step of an
\* upload, that step comes after the upload's update has written the computed
\* reference to the row of its id, and an upload that fails at the insert or
\* at the update of the reference creates no file.
C30RefBeforeBlob ==
    [][/\ \A f \in DOMAIN blobs' \ DOMAIN blobs :
             \E p \in Procs :
                pc[p] = "add_create" /\ pc'[p] = "add_copy" /\ f = UploadPath(p)
       /\ \A p \in Procs :
             (pc[p] = "add_create" /\ pc'[p] = "add_copy")
             => /\ req[p].over.id = req[p].meta.id
                /\ req[p].meta.ref = RefOf(req[p].meta.uid, req[p].meta.id, req[p].ext)
       /\ \A p \in Procs :
             (/\ pc[p] \in {"idle", "add_update"} /\ pc'[p] = "done"
              /\ req'[p].h = "add" /\ resp'[p].status = 500)
             => blobs' = blobs]_vars

\* C31: delImage removes a file only after its delete of the row has
\* succeeded: a file disappears only by the last step of a delete whose
\* record has no row any more, and a delete of the row that fails is
\* answered 500 there, the table and the files as they were.
C31BlobAfterRow ==
    [][/\ \A f \in DOMAIN blobs \ DOMAIN blobs' :
             \E p \in Procs :
                /\ pc[p] = "del_blob" /\ pc'[p] = "done"
                /\ f = VarsPath(req[p].vuid, req[p].fileId)
                /\ req[p].meta.id \notin DOMAIN rows
       /\ \A p \in Procs :
             (pc[p] = "del_row" /\ pc'[p] # "del_row" /\ faults' # faults)
             => /\ pc'[p] = "done" /\ resp'[p].status = 500
                /\ rows' = rows /\ blobs' = blobs]_vars

\* a delete whose row delete failed has been answered 500; the row and its
\* file are in place
C31Witness ==
    \E p \in Procs :
        /\ Answered(p, "del") /\ resp[p].status = 500 /\ resp[p].at = "del_row"
        /\ req[p].meta.id \in DOMAIN rows
        /\ VarsPath(req[p].vuid, req[p].fileId) \in DOMAIN blobs
        /\ VarsPath(req[p].vuid, req[p].fileId) = PathOfRow(rows[req[p].meta.id])

\* the record id that validateVars takes from the path
PathId(fileId) == Atoi(TrimSuffix(fileId, FilepathExt(fileId)))

\* C32: a getImage request of an authenticated caller for a path whose
\* record id has no row is answered at once, without a read of the file and
\* without bytes, also when a file is at that path: with 404 when the store
\* answers the lookup (with 400 when the lookup fails).
C32NoRowNoBytes ==
    [][\A p \in Procs :
          (/\ pc[p] = "idle" /\ pc'[p] # "idle"
           /\ req'[p].h = "get" /\ req'[p].tok.valid
           /\ Len(req'[p].vuid) > 0 /\ Len(req'[p].fileId) > 0
           /\ AtoiOk(TrimSuffix(req'[p].fileId, FilepathExt(req'[p].fileId)))
           /\ PathId(req'[p].fileId) \notin DOMAIN rows)
          => /\ pc'[p] = "done" /\ resp'[p].at = "idle"
             /\ resp'[p].body = <<>>
             /\ resp'[p].status = IF faults' = faults THEN 404 ELSE 400]_vars

\* a read has been answered 404 while a file is at the path it asked for
C32Witness ==
    \E p \in Procs :
        /\ Answered(p, "get") /\ resp[p].status = 404
        /\ PathId(req[p].fileId) \notin DOMAIN rows
        /\ VarsPath(req[p].vuid, req[p].fileId) \in DOMAIN blobs

\* C33: the row that a successful update writes has the id, the owner id,
\* the size, the encoding and the reference that the record had when the
\* upload that created it returned (stated for the updates that write
\* once the upload has stored the reference).
C33UpdateKeepsUploadFields ==
    [][\A p \in Procs :
          (/\ pc[p] = "upd_write" /\ pc'[p] = "done" /\ resp'[p].status = 200
           /\ req[p].meta.id \in DOMAIN rows
           /\ rows[req[p].meta.id].ref # <<>>)
          => LET id == req[p].meta.id
                 row == rows'[id]
             IN /\ row.id = id
                /\ row.uid = rows[id].uid
                /\ row.size = Len(orig[id])
                /\ row.encoding = DetectContentType(orig[id])
                /\ row.ref = ExpectedRef(row.uid, id, row.encoding[3])]_vars

Filters == {"id", "uid", "title", "encoding", "shareable"}

\* C34: a metadata query that carries none of the five filters, whatever
\* else it carries, returns records of the caller only.
C34NoFilterOwnRows ==
    \A p \in Procs :
        (/\ Answered(p, "query") /\ resp[p].status = 200
         /\ DOMAIN req[p].params \cap Filters = {})
        => \A k \in 1..Len(resp[p].body.imageMeta) :
              resp[p].body.imageMeta[k].uid = req[p].uid

\* C39: a metadata query whose page parses as an integer, negative or not,
\* selects from an offset that is not negative and is answered with a page,
\* not with 500.
C39PageOffsetNotNegative ==
    \A p \in Procs :
        (Answered(p, "query") /\ AtoiOk(Get(req[p].params, "page")))
        => /\ PageOf(req[p].params) * PAGE_SIZE >= 0
           /\ resp[p].status = 200
           /\ resp[p].body.page = PageOf(req[p].params)

\* no handler is at work and no call has been made to fail
Quiet == faults = 0 /\ \A p \in Procs : pc[p] = "idle"

\* file f is at ./image/<uid>/<id>.<ext> for the owner id and the id of row
FileOfRow(f, row) ==
    /\ Len(f) = 9
    /\ f[5] = ToString(row.uid) /\ f[7] = ToString(row.id)

\* C35: when no request is in progress and no blob-store operation has
\* failed, every file in the media directory has a row with its owner id and
\* its record id.
C35NoOrphanBlob ==
    Quiet => \A f \in DOMAIN blobs : \E id \in DOMAIN rows : FileOfRow(f, rows[id])

\* C36: every 200 response of getImage carries the complete bytes of the
\* upload that created the record, also when the read runs while that
\* upload is between the creation of its file and the end of the copy
\* (stated for the runs in which no call has been made to fail).
C36ReadCompleteBytes ==
    \A p \in Procs :
        (/\ Answered(p, "get") /\ resp[p].status = 200 /\ faults = 0
         /\ req[p].meta.id \in DOMAIN orig)
        => resp[p].body = orig[req[p].meta.id]

\* update p, which carries the one field k, has been answered 200 by its
\* write onto the row of its record
WroteOnly(p, k) ==
    /\ Answered(p, "update") /\ resp[p].status = 200 /\ resp[p].at = "upd_write"
    /\ DOMAIN req[p].params.m = {k}
    /\ req[p].over.id = req[p].meta.id
    /\ req[p].meta.id \in DOMAIN rows

\* C37 (as stated): of two concurrent updates of a record by its owner, one
\* with a title only and one with shareable only, both answered 200, the
\* stored row carries both changes: when the update that writes last read
\* the row before the other wrote, the row still has the other's new value.
C37BothChangesKept ==
    \A p \in Procs :
        /\ (WroteOnly(p, "shareable") /\ req[p].over.title # req[p].read.title)
           => rows[req[p].meta.id].title = req[p].over.title
        /\ (WroteOnly(p, "title") /\ req[p].over.shareable # req[p].read.shareable)
           => rows[req[p].meta.id].shareable = req[p].over.shareable

\* C37 (amended): the stored row is the whole row of the update that wrote
\* last: it carries that update's change and, in the other field, the value
\* that update had read, so that a change the other update wrote after that
\* read is lost.
C37LastWriteStays ==
    \A p \in Procs :
        /\ WroteOnly(p, "shareable")
           => /\ rows[req[p].meta.id] = req[p].meta
              /\ rows[req[p].meta.id].title = req[p].read.title
        /\ WroteOnly(p, "title")
           => /\ rows[req[p].meta.id] = req[p].meta
              /\ rows[req[p].meta.id].shareable = req[p].read.shareable

\* an update with shareable only has written last: the row has its flag and
\* the title it had read, not the title the other update wrote meanwhile
C37Witness ==
    \E p \in Procs :
        /\ WroteOnly(p, "shareable")
        /\ req[p].params.m["shareable"] = <<"true">>
        /\ req[p].over.title = <<"b", ".", "png">>
        /\ req[p].read.title = <<"f", ".", "png">>
        /\ rows[req[p].meta.id].shareable
        /\ rows[req[p].meta.id].title = <<"f", ".", "png">>

\* the upload that created record id has returned (no call has been made
\* to fail, so that it has returned 200)
Uploaded(id) ==
    /\ faults = 0
    /\ id \in DOMAIN rows
    /\ \A p \in Procs : ~(pc[p] \in UploadSteps /\ req[p].meta.id = id)

\* C38: from the 200 of its upload until it is deleted, the stored
\* reference of a record is not empty and is the reference the upload
\* returned, base-url/image/ownerId/id.ext.
C38ReferenceStays ==
    \A id \in DOMAIN rows :
        Uploaded(id)
        => /\ rows[id].ref # <<>>
           /\ rows[id].ref = ExpectedRef(rows[id].uid, id, rows[id].encoding[3])

====
